---- MODULE Spec2Model ----
(***************************************************************************)
(* A model of the WebIDL scanner, lookahead buffer and recursive-descent   *)
(* parser of dennwc/webidl (package parser).                               *)
(*                                                                         *)
(* Three specifications share the module's variables:                       *)
(*   SpecLex    the scanner alone, run rune by rune over a source text;     *)
(*   SpecPeek   the lookahead buffer (peekableLexer) under arbitrary        *)
(*              interleavings of nextToken and peekToken;                   *)
(*   Spec       Parse: the scanner's token stream fed through the           *)
(*              lookahead buffer to the grammar rules.                      *)
(* A source text is a sequence of runes, each rune a one-character string.  *)
(***************************************************************************)
EXTENDS Integers, Sequences, FiniteSets, TLC

VARIABLES
    lexer,      \* SpecLex: the scanner (*lexer): input, start, pos, width, state, tokens
    plex,       \* SpecPeek: the peekableLexer under test and the calls made on it
    parser,     \* Spec: the sourceParser: lex, nodes, currentToken, previousToken
    heap,       \* Spec: the ast nodes allocated so far, by node id
    stack,      \* Spec: the Go call stack of grammar rules, top frame last
    ret         \* Spec: the node or the list returned by the rule that returned last

vars == <<lexer, plex, parser, heap, stack, ret>>

----------------------------------------------------------------------------
(* Bounds of the model.                                                     *)

\* Longest enumerated source text of SpecLex, in runes.
MaxSrcLen == 4

----------------------------------------------------------------------------
(* Token kinds: lex_def.go, tokenType.                                      *)

tokenTypeError == "Error"
tokenTypeEOF == "EOF"
tokenTypeWhitespace == "Whitespace"
tokenTypeComment == "Comment"
tokenTypeIdentifier == "Identifier"
tokenTypeString == "String"
tokenTypeNumber == "Number"
tokenTypeLeftBrace == "LeftBrace"
tokenTypeRightBrace == "RightBrace"
tokenTypeLeftParen == "LeftParen"
tokenTypeRightParen == "RightParen"
tokenTypeLeftBracket == "LeftBracket"
tokenTypeRightBracket == "RightBracket"
tokenTypeLeftTri == "LeftTri"
tokenTypeRightTri == "RightTri"
tokenTypeEquals == "Equals"
tokenTypeSemicolon == "Semicolon"
tokenTypeComma == "Comma"
tokenTypeQuestionMark == "QuestionMark"
tokenTypeColon == "Colon"
tokenTypeVariadic == "Variadic"

\* x := v, then Do(x): v is evaluated once, and what follows has its value
\* under the name x.  An operator that uses the machine it is given more than
\* once binds it first (m0 to m), as Go evaluates an argument once, at the call.
Bind(v, Do(_)) == CHOOSE y \in {Do(x) : x \in {v}} : TRUE

\* A lexeme: kind, position (offset of its first rune), value (its text).
Lexeme(kind, position, value) == [kind |-> kind, position |-> position, value |-> value]

----------------------------------------------------------------------------
(* Runes.                                                                   *)

\* The rune next() returns at the end of the input.
EOFRUNE == "<eof>"

Letters == {"a", "b", "c", "d", "e", "f", "g", "h", "i", "j", "k", "l", "m",
            "n", "o", "p", "q", "r", "s", "t", "u", "v", "w", "x", "y", "z",
            "A", "B", "C", "D", "E", "F", "G", "H", "I", "J", "K", "L", "M",
            "N", "O", "P", "Q", "R", "S", "T", "U", "V", "W", "X", "Y", "Z"}
Digits == {"0", "1", "2", "3", "4", "5", "6", "7", "8", "9"}

isSpace(r) == r \in {" ", "\t"}
isNewline(r) == r \in {"\r", "\n"}
isAlphaNumeric(r) == r = "_" \/ r \in Letters \/ r \in Digits

\* The text of a sequence of runes, as one string.
RECURSIVE Text(_)
Text(rs) == IF rs = <<>> THEN "" ELSE rs[1] \o Text(Tail(rs))

----------------------------------------------------------------------------
(* The scanner's primitives (lex.go): a lexer l holds the input, the start  *)
(* of the lexeme being scanned, the position of the next rune, the width    *)
(* of the rune read last, the scanning state to run next and the tokens     *)
(* emitted so far.                                                          *)

NewLexer(input) ==
    [input |-> input, start |-> 0, pos |-> 0, width |-> 0,
     state |-> "lexSource", tokens |-> <<>>, esc |-> FALSE, scanning |-> FALSE]

\* next(): the rune at pos, consumed; EOFRUNE, consuming nothing, at the end.
nextRune(l) == IF l.pos >= Len(l.input) THEN EOFRUNE ELSE l.input[l.pos + 1]
next(l) ==
    IF l.pos >= Len(l.input) THEN [l EXCEPT !.width = 0]
    ELSE [l EXCEPT !.width = 1, !.pos = @ + 1]

\* backup(): steps back by the width of the rune read last.
backup(l) == [l EXCEPT !.pos = @ - l.width]

\* peek(): the next rune, not consumed.
peek(l) == nextRune(l)

\* value(): the text scanned since start.
value(l) == Text(SubSeq(l.input, l.start + 1, l.pos))

\* emit(t): sends the lexeme scanned since start and starts the next one.
emit(l, t) ==
    [l EXCEPT !.tokens = Append(@, Lexeme(t, l.start, value(l))), !.start = l.pos]

\* errorf(...): sends an error lexeme carrying the diagnostic and ends the scan.
errorf(l, msg) ==
    [l EXCEPT !.tokens = Append(@, Lexeme(tokenTypeError, l.start, msg)),
              !.state = "nil"]

\* accept(valid): consumes the next rune when it is the rune valid.
accept(l, valid) == IF nextRune(l) = valid THEN next(l) ELSE backup(next(l))

\* acceptString(value): consumes value when the input continues with it, and
\* backs up once for every rune read otherwise.
RECURSIVE backupTimes(_, _)
backupTimes(l, n) == IF n = 0 THEN l ELSE backupTimes(backup(l), n - 1)

RECURSIVE acceptStringFrom(_, _, _)
acceptStringFrom(l, runes, index) ==
    IF index > Len(runes) THEN [l |-> l, ok |-> TRUE]
    ELSE IF nextRune(l) # runes[index]
         THEN [l |-> backupTimes(next(l), index), ok |-> FALSE]
         ELSE acceptStringFrom(next(l), runes, index + 1)

acceptString(l, runes) == acceptStringFrom(l, runes, 1)

----------------------------------------------------------------------------
(* The scanning states (lex_def.go).  Each takes the lexer and returns it   *)
(* after one run of the state: tokens emitted, state set to the next one.   *)

Unrecognized(r) == "unrecognized character at this location: " \o r

\* Mutant of EmitWhitespace: the whitespace is skipped, no token emitted.
IgnoreWhitespace(l) == [l EXCEPT !.start = l.pos]

\* case isSpace(r) || isNewline(r): one whitespace token per rune.
EmitWhitespace(l) == emit(l, tokenTypeWhitespace)

\* Mutant of lexVariadic: a "." that starts no ellipsis is a token of its own.
lexVariadicLenient(l, r) ==
    LET a == acceptString(l, <<".", ".">>)
    IN  emit(a.l, tokenTypeVariadic)

\* case r == '.': the ellipsis when ".." follows, a scanner error otherwise.
lexVariadic(l, r) ==
    LET a == acceptString(l, <<".", ".">>)
    IN  IF a.ok THEN emit(a.l, tokenTypeVariadic)
        ELSE errorf(a.l, Unrecognized(r))

\* One round of performLexSource's loop: reads a rune and dispatches on it.
performLexSource(l) ==
    LET r == nextRune(l)
        l1 == next(l)
    IN  IF r = EOFRUNE THEN [emit(l1, tokenTypeEOF) EXCEPT !.state = "nil"]
        ELSE IF r = "{" THEN emit(l1, tokenTypeLeftBrace)
        ELSE IF r = "}" THEN emit(l1, tokenTypeRightBrace)
        ELSE IF r = "(" THEN emit(l1, tokenTypeLeftParen)
        ELSE IF r = ")" THEN emit(l1, tokenTypeRightParen)
        ELSE IF r = "[" THEN emit(l1, tokenTypeLeftBracket)
        ELSE IF r = "]" THEN emit(l1, tokenTypeRightBracket)
        ELSE IF r = "<" THEN emit(l1, tokenTypeLeftTri)
        ELSE IF r = ">" THEN emit(l1, tokenTypeRightTri)
        ELSE IF r = ";" THEN emit(l1, tokenTypeSemicolon)
        ELSE IF r = "," THEN emit(l1, tokenTypeComma)
        ELSE IF r = "." THEN lexVariadic(l1, r)
        ELSE IF r = "=" THEN emit(l1, tokenTypeEquals)
        ELSE IF r = "?" THEN emit(l1, tokenTypeQuestionMark)
        ELSE IF r = ":" THEN emit(l1, tokenTypeColon)
        ELSE IF isSpace(r) \/ isNewline(r) THEN EmitWhitespace(l1)
        ELSE IF r = "\"" THEN [backup(l1) EXCEPT !.state = "lexStringLiteral"]
        ELSE IF isAlphaNumeric(r) THEN [backup(l1) EXCEPT !.state = "lexIdentifierOrKeyword"]
        ELSE IF r = "/" THEN [l1 EXCEPT !.state = "lexSinglelineComment"]
        ELSE errorf(l1, Unrecognized(r))

\* The checker of lexSinglelineComment: the runes a comment goes on with.
commentChecker(r) == ~(r = EOFRUNE \/ isNewline(r))

\* lexSinglelineComment: accepts "//" and hands over to the state built by
\* buildLexUntil(tokenTypeComment, checker).
lexSinglelineComment(l) == [acceptString(l, <<"/", "/">>).l EXCEPT !.state = "lexUntil"]

\* The state buildLexUntil returns: reads runes while the checker accepts them,
\* backs up over the first it refuses, emits the token, returns to lexSource.
RECURSIVE lexUntilLoop(_)
lexUntilLoop(l) ==
    IF commentChecker(nextRune(l)) THEN lexUntilLoop(next(l)) ELSE backup(next(l))

lexUntil(l) == [emit(lexUntilLoop(l), tokenTypeComment) EXCEPT !.state = "lexSource"]

\* lexIdentifierOrKeyword: the maximal run of alphanumeric runes.
RECURSIVE identifierLoop(_)
identifierLoop(l) == IF isAlphaNumeric(peek(l)) THEN identifierLoop(next(l)) ELSE l

lexIdentifierOrKeyword(l) ==
    [emit(identifierLoop(l), tokenTypeIdentifier) EXCEPT !.state = "lexSource"]

\* Mutant of nextEsc: every backslash escapes, an escaped one too.
nextEscAlways(c, esc) == c = "\\"

\* The escape state after the rune c: a backslash escapes unless escaped itself.
nextEsc(c, esc) == c = "\\" /\ ~esc

\* lexStringLiteral, one step: the opening quote (scanning = FALSE), then one
\* round of its loop per step.
lexStringLiteral(l) ==
    IF ~l.scanning
    THEN [accept(l, "\"") EXCEPT !.esc = FALSE, !.scanning = TRUE]
    ELSE LET c == peek(l)
         IN  IF c = "\"" /\ ~l.esc
             THEN [emit(next(l), tokenTypeString) EXCEPT !.state = "lexSource",
                                                         !.scanning = FALSE]
             ELSE [next(l) EXCEPT !.esc = nextEsc(c, l.esc)]

----------------------------------------------------------------------------
(* SpecLex: the scanner alone.                                              *)

\* The runes of the enumerated source texts.
LexAlphabet == {"a", "0", " ", "\n", "\"", "\\", "/", "*", ".", "{", "@"}

SeqsUpTo(S, n) == UNION {[1..k -> S] : k \in 0..n}

\* Source texts of the scanner's tests (lex_test.go).
SrcComment == <<"/", "/", " ", "a", " ", "c", "o", "m", "m", "e", "n", "t">>
SrcMultiline == <<"/", "*", " ", "a", " ", "c", "o", "m", "m", "e", "n", "t", " ", "*", "/", "f", "o", "o">>
SrcMultiline2 == <<"/", "*", " ", "a", "\n", "c", "o", "m", "m", "e", "n", "t", " ", "*", "/", "f", "o", "o">>
SrcString == <<"\"", "v", "a", "l", "\"">>
SrcStringEsc == <<"\"", "v", "a", "\\", "\"", "l", "\"">>
SrcStringNoesc == <<"\"", "v", "a", "l", "\\", "\\", "\"">>
SrcNumber == <<"0", ".", "0">>
SrcVariadic == <<".", ".", ".">>
SrcKeyword == <<"i", "n", "t", "e", "r", "f", "a", "c", "e">>
SrcNewlineRN == <<"\r", "\n">>

LexSamples == {SrcComment, SrcMultiline, SrcMultiline2, SrcString, SrcStringEsc, SrcStringNoesc, SrcNumber, SrcVariadic, SrcKeyword, SrcNewlineRN}

LexSources == SeqsUpTo(LexAlphabet, MaxSrcLen) \cup LexSamples

Idle == "idle"

InitLex ==
    /\ lexer \in {NewLexer(src) : src \in LexSources}
    /\ plex = Idle /\ parser = Idle /\ heap = <<>> /\ stack = <<>> /\ ret = Idle

LexStep(l1) == /\ lexer' = l1
               /\ UNCHANGED <<plex, parser, heap, stack, ret>>

PerformLexSource == lexer.state = "lexSource" /\ LexStep(performLexSource(lexer))
LexSinglelineComment == lexer.state = "lexSinglelineComment" /\ LexStep(lexSinglelineComment(lexer))
LexUntil == lexer.state = "lexUntil" /\ LexStep(lexUntil(lexer))
LexIdentifierOrKeyword == lexer.state = "lexIdentifierOrKeyword" /\ LexStep(lexIdentifierOrKeyword(lexer))
LexStringLiteral == lexer.state = "lexStringLiteral" /\ LexStep(lexStringLiteral(lexer))

NextLex ==
    \/ PerformLexSource
    \/ LexSinglelineComment
    \/ LexUntil
    \/ LexIdentifierOrKeyword
    \/ LexStringLiteral

SpecLex == InitLex /\ [][NextLex]_vars

----------------------------------------------------------------------------
(* Properties of the scanner, checked under SpecLex.                        *)

Quote == "\""

\* The scan has ended: the last state returned nil.
LexDone == lexer.state = "nil"

LexErrored == \E i \in 1..Len(lexer.tokens) : lexer.tokens[i].kind = tokenTypeError

RECURSIVE SumLen(_)
SumLen(ts) == IF ts = <<>> THEN 0 ELSE Len(ts[1].value) + SumLen(Tail(ts))

RECURSIVE ConcatValues(_)
ConcatValues(ts) == IF ts = <<>> THEN "" ELSE ts[1].value \o ConcatValues(Tail(ts))

\* The source text from offset position, n runes long.
Slice(input, position, n) == Text(SubSeq(input, position + 1, position + n))

\* C7: the tokens emitted ahead of any error token tile the source: each starts
\* where the values of the earlier ones end, each value is the source text at
\* its position, and once end-of-input is emitted without an error the values
\* concatenated are the source text.
C7_TokensTileSource ==
    LET ts == lexer.tokens
    IN  /\ \A i \in 1..Len(ts) :
              ts[i].kind # tokenTypeError =>
                  /\ ts[i].position = SumLen(SubSeq(ts, 1, i - 1))
                  /\ ts[i].value = Slice(lexer.input, ts[i].position, Len(ts[i].value))
        /\ (LexDone /\ ~LexErrored) =>
              /\ ts[Len(ts)].kind = tokenTypeEOF
              /\ ConcatValues(ts) = Text(lexer.input)
              /\ SumLen(ts) = Len(lexer.input)

\* A completed scan of several tokens of different kinds, whitespace among them.
C7_Witness ==
    /\ LexDone /\ ~LexErrored
    /\ Len(lexer.tokens) >= 4
    /\ \E i \in 1..Len(lexer.tokens) : lexer.tokens[i].kind = tokenTypeWhitespace
    /\ \E i \in 1..Len(lexer.tokens) : lexer.tokens[i].kind = tokenTypeIdentifier

\* The backslashes that directly precede index j, counted down to index lo.
RECURSIVE BackslashRun(_, _, _)
BackslashRun(input, j, lo) ==
    IF j - 1 >= lo /\ input[j - 1] = "\\" THEN 1 + BackslashRun(input, j - 1, lo) ELSE 0

\* Index j holds a quote that closes the string opened at index open: a quote
\* preceded, inside the string, by an even number of backslashes.
ClosingQuoteAt(input, open, j) ==
    input[j] = Quote /\ BackslashRun(input, j, open + 1) % 2 = 0

\* C8: a string token starts at a quote and ends at the first later quote that
\* is not escaped, a backslash escaping only when not escaped itself; its value
\* includes both quotes.  While a string is being scanned the scanner has not
\* run past such a quote, and the two escape examples of the tests are one
\* string token followed by end-of-input.
C8_StringLiteral ==
    LET ts == lexer.tokens
        in == lexer.input
    IN  /\ \A i \in 1..Len(ts) :
              ts[i].kind = tokenTypeString =>
                  LET open == ts[i].position + 1
                      close == ts[i].position + Len(ts[i].value)
                  IN  /\ in[open] = Quote
                      /\ close > open
                      /\ ClosingQuoteAt(in, open, close)
                      /\ \A j \in (open + 1)..(close - 1) : ~ClosingQuoteAt(in, open, j)
                      /\ ts[i].value = Text(SubSeq(in, open, close))
        /\ (lexer.state = "lexStringLiteral" /\ lexer.scanning) =>
              \A j \in (lexer.start + 2)..lexer.pos : ~ClosingQuoteAt(in, lexer.start + 1, j)
        /\ (LexDone /\ in \in {SrcString, SrcStringEsc, SrcStringNoesc}) =>
              ts = <<Lexeme(tokenTypeString, 0, Text(in)), Lexeme(tokenTypeEOF, Len(in), "")>>

\* The test's escaped-quote string, scanned to the end as one string token.
C8_Witness ==
    /\ LexDone
    /\ lexer.input = SrcStringEsc
    /\ Len(lexer.tokens) = 2
    /\ lexer.tokens[1].kind = tokenTypeString

\* The index of the "/" of the first "*/" at or after index j; 0 when there is none.
RECURSIVE BlockEnd(_, _)
BlockEnd(input, j) ==
    IF j + 1 > Len(input) THEN 0
    ELSE IF input[j] = "*" /\ input[j + 1] = "/" THEN j + 1
    ELSE BlockEnd(input, j + 1)

StartsBlockComment(input) ==
    Len(input) >= 4 /\ input[1] = "/" /\ input[2] = "*" /\ BlockEnd(input, 3) # 0

\* C9 (as claimed): a source that starts with a block comment scans to a
\* comment token holding the text from "/*" through "*/", and the scan goes on
\* with the text after it: the tests' two block comments give comment,
\* identifier foo, end-of-input.
C9_BlockComment ==
    LET ts == lexer.tokens
        in == lexer.input
    IN  /\ (StartsBlockComment(in) /\ ts # <<>>) =>
              ts[1] = Lexeme(tokenTypeComment, 0, Text(SubSeq(in, 1, BlockEnd(in, 3))))
        /\ (LexDone /\ in \in {SrcMultiline, SrcMultiline2}) =>
              /\ Len(ts) = 3
              /\ ts[2] = Lexeme(tokenTypeIdentifier, BlockEnd(in, 3), "foo")
              /\ ts[3].kind = tokenTypeEOF

IsDecimalLiteral(input) ==
    \E k \in 2..(Len(input) - 1) :
        /\ input[k] = "."
        /\ \A j \in (1..Len(input)) \ {k} : input[j] \in Digits

\* C10 (as claimed): a numeric literal with a decimal point is scanned as one
\* token of kind number holding the whole literal, followed by end-of-input.
C10_NumberLiteral ==
    (LexDone /\ IsDecimalLiteral(lexer.input)) =>
        lexer.tokens = <<Lexeme(tokenTypeNumber, 0, Text(lexer.input)),
                         Lexeme(tokenTypeEOF, Len(lexer.input), "")>>

\* The runes performLexSource has a case for.
Scannable ==
    {"{", "}", "(", ")", "[", "]", "<", ">", ";", ",", "=", "?", ":", "/", "\"",
     " ", "\t", "\r", "\n", "_"} \cup Letters \cup Digits

\* The rune the scanner is about to read starts no token: a "." with no ".."
\* behind it, or a rune no case of performLexSource matches.
StartsNoToken(l) ==
    LET r == nextRune(l)
        at(i) == IF l.pos + i <= Len(l.input) THEN l.input[l.pos + i] ELSE EOFRUNE
    IN  /\ r # EOFRUNE
        /\ IF r = "." THEN ~(at(2) = "." /\ at(3) = ".") ELSE r \notin Scannable

----------------------------------------------------------------------------
(* The scanner as the parser sees it: lexer.nextToken() runs the scanning   *)
(* states until a token is ready.  The token stream of a source text is     *)
(* the tokens of the completed scan; a scan that never completes (a state   *)
(* that goes round without moving on) delivers the tokens emitted before    *)
(* it and then nothing.                                                     *)

\* One run of the lexer's current state.
runState(l) ==
    IF l.state = "lexSource" THEN performLexSource(l)
    ELSE IF l.state = "lexSinglelineComment" THEN lexSinglelineComment(l)
    ELSE IF l.state = "lexUntil" THEN lexUntil(l)
    ELSE IF l.state = "lexIdentifierOrKeyword" THEN lexIdentifierOrKeyword(l)
    ELSE IF l.state = "lexStringLiteral" THEN lexStringLiteral(l)
    ELSE l

\* n rounds of the loop that runs the lexer's states; a lexer whose state is
\* nil is left as it is.
RECURSIVE runStates(_, _)
runStates(l, n) ==
    IF n = 0 THEN l
    ELSE IF n = 1 THEN runState(l)
    ELSE LET half == runStates(l, n \div 2)
         IN  IF half.state = "nil" THEN half ELSE runStates(half, n - (n \div 2))

\* The lexer run to its end.  A state reads a rune or hands over to a state
\* that reads one, so that after 3 * Len(input) + 4 rounds the state is nil or
\* the lexer is at a state that reads the end of the input for ever.
runLexer(l) == runStates(l, 3 * Len(l.input) + 4)

\* A scanner handed to the lookahead buffer: its token stream and the number
\* of tokens taken from it.
NewScanner(input) == [toks |-> runLexer(NewLexer(input)).tokens, taken |-> 0]

\* lexer.nextToken(): the next token of the stream.  ok is FALSE when the
\* stream holds no further token: the scan has ended (after end-of-input or an
\* error token) or never ends, and the call yields no token.
lexNextToken(sc) ==
    IF sc.taken < Len(sc.toks)
    THEN [ok |-> TRUE, token |-> sc.toks[sc.taken + 1], lex |-> [sc EXCEPT !.taken = @ + 1]]
    ELSE [ok |-> FALSE, token |-> Lexeme(tokenTypeError, 0, ""), lex |-> sc]

----------------------------------------------------------------------------
(* The lookahead buffer (peekableLexer): lex, the scanner it wraps, and     *)
(* readTokens, the tokens read ahead, oldest first.                         *)

peekableLex(sc) == [lex |-> sc, readTokens |-> <<>>]

\* Mutant of peekableNextToken: the buffer is passed over, the scanner is read.
peekableNextTokenUnbuffered(pl) ==
    LET r == lexNextToken(pl.lex)
    IN  [ok |-> r.ok, token |-> r.token, pl |-> [pl EXCEPT !.lex = r.lex]]

\* peekableLexer.nextToken(): the front of readTokens, removed, when there is
\* one; the scanner's next token otherwise.
peekableNextToken(pl) ==
    IF pl.readTokens # <<>>
    THEN [ok |-> TRUE, token |-> Head(pl.readTokens),
          pl |-> [pl EXCEPT !.readTokens = Tail(@)]]
    ELSE Bind(lexNextToken(pl.lex), LAMBDA r :
             [ok |-> r.ok, token |-> r.token, pl |-> [pl EXCEPT !.lex = r.lex]])

\* The loop of peekToken that fills readTokens up to count tokens: missing
\* calls of the scanner's nextToken, each token appended to readTokens.
RECURSIVE readAhead(_, _)
readAhead(pl, missing) ==
    IF missing = 1
    THEN Bind(lexNextToken(pl.lex), LAMBDA r :
             IF ~r.ok THEN [ok |-> FALSE, pl |-> pl]
             ELSE [ok |-> TRUE, pl |-> [pl EXCEPT !.lex = r.lex,
                                                  !.readTokens = Append(@, r.token)]])
    ELSE Bind(readAhead(pl, missing \div 2), LAMBDA half :
             IF ~half.ok THEN half
             ELSE readAhead(half.pl, missing - (missing \div 2)))

fillReadTokens(pl, count) ==
    IF Len(pl.readTokens) >= count THEN [ok |-> TRUE, pl |-> pl]
    ELSE readAhead(pl, count - Len(pl.readTokens))

\* Mutant of peekToken: the walk from the front stops one element early.
peekTokenShort(pl, count) ==
    LET f == fillReadTokens(pl, count)
    IN  IF count < 1 THEN [ok |-> FALSE, panic |-> TRUE, token |-> Lexeme(tokenTypeError, 0, ""), pl |-> pl]
        ELSE IF ~f.ok THEN [ok |-> FALSE, panic |-> FALSE, token |-> Lexeme(tokenTypeError, 0, ""), pl |-> f.pl]
        ELSE [ok |-> TRUE, panic |-> FALSE,
              token |-> f.pl.readTokens[IF count > 1 THEN count - 1 ELSE 1], pl |-> f.pl]

\* peekableLexer.peekToken(count): panics when count < 1; fills readTokens up
\* to count tokens and returns the count-th from the front.
peekToken(pl, count) ==
    IF count < 1
    THEN [ok |-> FALSE, panic |-> TRUE, token |-> Lexeme(tokenTypeError, 0, ""), pl |-> pl]
    ELSE Bind(fillReadTokens(pl, count), LAMBDA f :
             IF ~f.ok
             THEN [ok |-> FALSE, panic |-> FALSE, token |-> Lexeme(tokenTypeError, 0, ""),
                   pl |-> f.pl]
             ELSE [ok |-> TRUE, panic |-> FALSE, token |-> f.pl.readTokens[count], pl |-> f.pl])

----------------------------------------------------------------------------
(* SpecPeek: the lookahead buffer under any interleaving of nextToken() and *)
(* peekToken(n), over the token streams of the scanner's test sources.      *)
(* plex.returned lists the tokens nextToken() has returned; plex.peeked     *)
(* holds, for every peekToken(n) made, the token it returned and the        *)
(* number at, in the order of nextToken() results, of the call it foretells.*)

\* Largest count passed to peekToken.
MaxPeek == 3

InitPeek ==
    /\ plex \in {[pl |-> peekableLex(NewScanner(src)), returned |-> <<>>, peeked |-> {}] :
                    src \in LexSamples}
    /\ lexer = Idle /\ parser = Idle /\ heap = <<>> /\ stack = <<>> /\ ret = Idle

\* The tokens the wrapped scanner can still deliver.
Remaining(pl) == Len(pl.lex.toks) - pl.lex.taken

PeekNextToken ==
    /\ Len(plex.pl.readTokens) + Remaining(plex.pl) >= 1
    /\ LET r == peekableNextToken(plex.pl)
       IN  plex' = [plex EXCEPT !.pl = r.pl, !.returned = Append(@, r.token)]
    /\ UNCHANGED <<lexer, parser, heap, stack, ret>>

PeekPeekToken ==
    \E n \in 1..MaxPeek :
        /\ Len(plex.pl.readTokens) + Remaining(plex.pl) >= n
        /\ LET r == peekToken(plex.pl, n)
           IN  plex' = [plex EXCEPT !.pl = r.pl,
                                    !.peeked = @ \cup {[at |-> Len(plex.returned) + n,
                                                        token |-> r.token]}]
        /\ UNCHANGED <<lexer, parser, heap, stack, ret>>

NextPeek == PeekNextToken \/ PeekPeekToken

SpecPeek == InitPeek /\ [][NextPeek]_vars

\* C6: the tokens nextToken() returns are the scanner's token sequence in
\* order, none skipped, duplicated or reordered, and a token peekToken(n)
\* returned is the one the n-th following nextToken() returns.
C6_PeekInOrder ==
    /\ plex.returned = SubSeq(plex.pl.lex.toks, 1, Len(plex.returned))
    /\ \A pk \in plex.peeked :
           /\ pk.token = plex.pl.lex.toks[pk.at]
           /\ pk.at <= Len(plex.returned) => plex.returned[pk.at] = pk.token

\* A token was peeked two ahead and nextToken() has since returned it, with a
\* further token still read ahead.
C6_Witness ==
    /\ Len(plex.returned) >= 2
    /\ \E pk \in plex.peeked : pk.at = Len(plex.returned) /\ plex.returned[pk.at] = pk.token
    /\ plex.pl.readTokens # <<>>
    /\ plex.returned[1] # plex.returned[2]

----------------------------------------------------------------------------
(* The parse driver (parser.go).  A machine m is the sourceParser m.p and   *)
(* the nodes allocated so far m.h; every primitive takes m and returns it   *)
(* changed, with its result beside it when it has one.                      *)
(*                                                                          *)
(* m.p.status is "running" while Parse runs, "returned" once it has         *)
(* returned the File, "panic" when a panic unwound it, and "stuck" when a   *)
(* call for the scanner's next token yields none.  Once the status is not   *)
(* "running" every primitive leaves m as it is.                             *)

\* Nodes kept in the heap; the nodes allocated beyond it are not recorded
\* (their id is 0) and m.p.truncated is set.
MaxNodes == 60

\* nextToken's limit on the lookahead (parser.go: for i := 0; i < 1000; i++).
StaleLimit == 1000

\* parserConfig.ignoredTokenTypes, as Parse sets it.
ignoredTokenTypes == {tokenTypeWhitespace, tokenTypeComment}

commentedLexeme(token, comments) ==
    [kind |-> token.kind, position |-> token.position, value |-> token.value,
     comments |-> comments]

\* buildParser(lexer, config, 0).
buildParser(sc) ==
    [startIndex |-> 0,
     lex |-> peekableLex(sc),
     nodes |-> <<>>,
     currentToken |-> commentedLexeme(Lexeme(tokenTypeEOF, 0, ""), <<>>),
     previousToken |-> commentedLexeme(Lexeme(tokenTypeEOF, 0, ""), <<>>),
     status |-> "running",
     truncated |-> FALSE]

Running(m) == m.p.status = "running"
Halt(m, status) == [m EXCEPT !.p.status = status]

\* ast.Base, with the node's kind.
Base(kind) == [kind |-> kind, Start |-> 0, End |-> 0, Comments |-> <<>>, Errors |-> <<>>]

\* The node with id; the zero Base for an id that is not recorded.
NodeAt(h, id) == IF id = 0 THEN Base("") ELSE h[id]

\* &ast.X{...}: a new node.
alloc(m0, n) ==
    Bind(m0, LAMBDA m :
    IF Len(m.h) >= MaxNodes
    THEN [m |-> [m EXCEPT !.p.truncated = TRUE], id |-> 0]
    ELSE [m |-> [m EXCEPT !.h = Append(@, n)], id |-> Len(m.h) + 1])

\* The fields fs written to node id.
setFields(m0, id, fs) == Bind(m0, LAMBDA m : IF id = 0 THEN m ELSE [m EXCEPT !.h[id] = fs @@ @])

\* append(list, id) for a list of nodes.  Of the nodes that are not recorded
\* the list keeps one id 0 at its end, so that it is empty only when nothing
\* was appended to it.
appendNode(list, id) ==
    IF id # 0 THEN Append(list, id)
    ELSE IF list = <<>> THEN <<0>>
    ELSE IF list[Len(list)] = 0 THEN list
    ELSE Append(list, 0)

\* nodeStack.topValue(): 0 stands for nil here, the stack being empty.
currentNode(m0) == Bind(m0, LAMBDA m : IF m.p.nodes = <<>> THEN 0 ELSE m.p.nodes[Len(m.p.nodes)])

decorateComments(m0, id, comments) ==
    Bind(m0, LAMBDA m :
    setFields(m, id, [Comments |-> NodeAt(m.h, id).Comments \o comments]))

\* Mutant of decorateStartRuneAndComments: the comments are left behind.
decorateStartRune(m0, id, token) ==
    Bind(m0, LAMBDA m : setFields(m, id, [Start |-> token.position + m.p.startIndex]))

decorateStartRuneAndComments(m0, id, token) ==
    Bind(m0, LAMBDA m :
    decorateComments(setFields(m, id, [Start |-> token.position + m.p.startIndex]),
                     id, token.comments))

\* Mutant of decorateEndRune: the offset after the token's last rune.
decorateEndRuneAfter(m0, id, token) ==
    Bind(m0, LAMBDA m :
    setFields(m, id, [End |-> token.position + Len(token.value) + m.p.startIndex]))

decorateEndRune(m0, id, token) ==
    Bind(m0, LAMBDA m :
    setFields(m, id, [End |-> token.position + Len(token.value) - 1 + m.p.startIndex]))

\* nodeStack.push(id).
push(m, id) == [m EXCEPT !.p.nodes = Append(@, id)]

\* nodeStack.pop().
pop(m) == [m EXCEPT !.p.nodes = SubSeq(@, 1, Len(@) - 1)]

\* p.node(node): decorates the node with the current token and pushes it.
node(m0, id) == Bind(m0, LAMBDA m : push(decorateStartRuneAndComments(m, id, m.p.currentToken), id))

\* The completion action p.node returns: panics on an empty stack; sets the
\* end of the node on top of the stack from the previous token and pops it.
finishNode(m0) ==
    Bind(m0, LAMBDA m :
    IF ~Running(m) THEN m
    ELSE IF m.p.nodes = <<>> THEN Halt(m, "panic")
    ELSE pop(decorateEndRune(m, currentNode(m), m.p.previousToken)))

\* createErrorNode(format, args...): a new ErrorNode from the current token's
\* start to the previous token's end.
createErrorNode(m0, message) ==
    Bind(m0, LAMBDA m :
    Bind(alloc(m, [Message |-> message] @@ Base("ErrorNode")), LAMBDA a :
        [m |-> decorateEndRune(decorateStartRuneAndComments(a.m, a.id, m.p.currentToken),
                               a.id, m.p.previousToken),
         id |-> a.id]))

\* The error node e appended to the errors of node top.
addError(m0, top, e) ==
    Bind(m0, LAMBDA m :
    setFields(m, top, [Errors |-> appendNode(NodeAt(m.h, top).Errors, e)]))

\* emitError: the ErrorNode created is appended to the errors of the node on
\* top of the stack (a nil dereference when there is none).
emitError(m0, message) ==
    Bind(m0, LAMBDA m :
    IF ~Running(m) THEN m
    ELSE Bind(createErrorNode(m, message), LAMBDA e :
             IF m.p.nodes = <<>> THEN Halt(e.m, "panic")
             ELSE addError(e.m, currentNode(m), e.id)))

\* The comments read so far, with the token when it is a comment.
withComment(comments, token) ==
    IF token.kind = tokenTypeComment THEN Append(comments, token.value) ELSE comments

\* consumeToken(): reads tokens up to the first that is not ignored, which
\* becomes current; the comments read on the way go with it.
\* Up to count turns of the loop of consumeToken, as halves of them (a loop
\* over a thousand ignored tokens is too deep unrolled one by one): done when
\* a token that is not ignored has become current or the scanner has none.
RECURSIVE consumeTokens(_, _, _)
consumeTokens(m0, comments, count) ==
    Bind(m0, LAMBDA m :
    IF count = 1
    THEN Bind(peekableNextToken(m.p.lex), LAMBDA r :
             IF ~r.ok
             THEN [m |-> Halt([m EXCEPT !.p.lex = r.pl], "stuck"), comments |-> comments, done |-> TRUE]
             ELSE IF r.token.kind \in ignoredTokenTypes
             THEN [m |-> [m EXCEPT !.p.lex = r.pl], comments |-> withComment(comments, r.token),
                   done |-> FALSE]
             ELSE [m |-> [m EXCEPT !.p.lex = r.pl,
                                   !.p.previousToken = m.p.currentToken,
                                   !.p.currentToken =
                                       commentedLexeme(r.token, withComment(comments, r.token))],
                   comments |-> comments, done |-> TRUE])
    ELSE Bind(consumeTokens(m, comments, count \div 2), LAMBDA first :
             IF first.done THEN first
             ELSE consumeTokens(first.m, first.comments, count - (count \div 2))))

\* The loop of consumeToken from its next turn on, count turns and then twice
\* as many, until it is done.
RECURSIVE consumeTokenLoop(_, _, _)
consumeTokenLoop(m0, comments, count) ==
    Bind(consumeTokens(m0, comments, count), LAMBDA r :
        IF r.done THEN r.m ELSE consumeTokenLoop(r.m, r.comments, 2 * count))

\* Mutant of consumeToken: the next token becomes current, ignored or not.
consumeTokenAny(m0) ==
    Bind(m0, LAMBDA m :
    IF ~Running(m) THEN m
    ELSE Bind(peekableNextToken(m.p.lex), LAMBDA r :
             IF ~r.ok THEN Halt([m EXCEPT !.p.lex = r.pl], "stuck")
             ELSE [m EXCEPT !.p.lex = r.pl,
                            !.p.previousToken = m.p.currentToken,
                            !.p.currentToken = commentedLexeme(r.token, <<>>)]))

consumeToken(m0) == Bind(m0, LAMBDA m : IF ~Running(m) THEN m ELSE consumeTokenLoop(m, <<>>, 1))

isToken(m, types) == m.p.currentToken.kind \in types

isIdentifier(m0, name) ==
    Bind(m0, LAMBDA m : isToken(m, {tokenTypeIdentifier}) /\ m.p.currentToken.value = name)

\* The loop of sourceParser.nextToken() for i + 1 from lo to hi: the first
\* peekToken(i + 1) that is not ignored ends it.
RECURSIVE nextTokenLoop(_, _, _)
nextTokenLoop(m0, lo, hi) ==
    Bind(m0, LAMBDA m :
    IF lo = hi
    THEN Bind(peekToken(m.p.lex, lo), LAMBDA r :
             IF r.panic
             THEN [m |-> Halt([m EXCEPT !.p.lex = r.pl], "panic"), done |-> TRUE, token |-> r.token]
             ELSE IF ~r.ok
             THEN [m |-> Halt([m EXCEPT !.p.lex = r.pl], "stuck"), done |-> TRUE, token |-> r.token]
             ELSE [m |-> [m EXCEPT !.p.lex = r.pl],
                   done |-> r.token.kind \notin ignoredTokenTypes, token |-> r.token])
    ELSE Bind(nextTokenLoop(m, lo, (lo + hi) \div 2), LAMBDA first :
             IF first.done THEN first
             ELSE nextTokenLoop(first.m, ((lo + hi) \div 2) + 1, hi)))

\* sourceParser.nextToken(): the next token that is not ignored, not consumed;
\* panics ("stale") when the first StaleLimit tokens ahead are all ignored.
nextToken(m0) ==
    Bind(m0, LAMBDA m :
    IF ~Running(m) THEN [m |-> m, token |-> Lexeme(tokenTypeError, 0, "")]
    ELSE Bind(nextTokenLoop(m, 1, StaleLimit), LAMBDA r :
             IF r.done THEN [m |-> r.m, token |-> r.token]
             ELSE [m |-> Halt(r.m, "panic"), token |-> r.token]))

isNextToken(m, types) ==
    Bind(nextToken(m), LAMBDA r : [m |-> r.m, ok |-> r.token.kind \in types])

isNextIdentifier(m, keyword) ==
    Bind(nextToken(m), LAMBDA r :
        [m |-> r.m, ok |-> r.token.kind = tokenTypeIdentifier /\ r.token.value = keyword])

\* tryConsumeWithComments / tryConsume: the current token, consumed, when its
\* kind is among types; the placeholder token and false otherwise.
tryConsume(m0, types) ==
    Bind(m0, LAMBDA m :
    IF isToken(m, types)
    THEN [m |-> consumeToken(m), token |-> m.p.currentToken, ok |-> TRUE]
    ELSE [m |-> m, token |-> commentedLexeme(Lexeme(tokenTypeError, -1, ""), <<>>), ok |-> FALSE])

\* The result r of a try, with an error emitted when it failed.
orError(m, r0, message) ==
    Bind(r0, LAMBDA r : IF r.ok THEN r ELSE [r EXCEPT !.m = emitError(m, message)])

\* Mutant of consume: the token that does not match is passed over.
consumeSkipping(m0, types) ==
    Bind(m0, LAMBDA m :
    IF isToken(m, types) THEN tryConsume(m, types)
    ELSE [tryConsume(m, types) EXCEPT !.m = consumeToken(emitError(m, "Expected one of"))])

consume(m0, types) == Bind(m0, LAMBDA m : orError(m, tryConsume(m, types), "Expected one of"))

tryConsumeIdentifier(m0) ==
    Bind(m0, LAMBDA m :
    IF ~isToken(m, {tokenTypeIdentifier}) THEN [m |-> m, value |-> "", ok |-> FALSE]
    ELSE [m |-> consumeToken(m), value |-> m.p.currentToken.value, ok |-> TRUE])

\* Mutant of consumeIdentifier: the declaration keywords are reserved words.
consumeIdentifierReserved(m0) ==
    Bind(m0, LAMBDA m :
    IF isToken(m, {tokenTypeIdentifier})
       /\ m.p.currentToken.value \in {"interface", "partial", "callback", "dictionary", "enum", "typedef"}
    THEN [m |-> emitError(m, "Expected identifier"), value |-> "", ok |-> FALSE]
    ELSE orError(m, tryConsumeIdentifier(m), "Expected identifier"))

consumeIdentifier(m0) ==
    Bind(m0, LAMBDA m : orError(m, tryConsumeIdentifier(m), "Expected identifier"))

tryConsumeKeyword(m0, keyword) ==
    Bind(m0, LAMBDA m :
    IF ~isIdentifier(m, keyword) THEN [m |-> m, ok |-> FALSE]
    ELSE [m |-> consumeToken(m), ok |-> TRUE])

consumeKeyword(m0, keyword) ==
    Bind(m0, LAMBDA m : orError(m, tryConsumeKeyword(m, keyword), "Expected keyword"))

----------------------------------------------------------------------------
(* ast nodes: the fields of each kind besides its Base, at their zero       *)
(* values.  A field that refers to a node holds its id, 0 for nil; a list   *)
(* of nodes is a sequence of ids.                                           *)

Zero(kind) ==
    CASE kind = "File" -> [Declarations |-> <<>>]
      [] kind = "Interface" -> [Partial |-> FALSE, Callback |-> FALSE, Name |-> "", Inherits |-> "",
                                Annotations |-> <<>>, Members |-> <<>>, CustomOps |-> <<>>, Iterable |-> 0]
      [] kind = "Mixin" -> [Name |-> "", Inherits |-> "", Annotations |-> <<>>, Members |-> <<>>,
                            CustomOps |-> <<>>, Iterable |-> 0]
      [] kind = "Dictionary" -> [Name |-> "", Inherits |-> "", Partial |-> FALSE,
                                 Annotations |-> <<>>, Members |-> <<>>]
      [] kind = "Annotation" -> [Name |-> "", Value |-> "", Parameters |-> <<>>, Values |-> <<>>]
      [] kind = "Parameter" -> [Type |-> 0, Optional |-> FALSE, Variadic |-> FALSE, Name |-> "",
                                Init |-> 0, Annotations |-> <<>>]
      [] kind \in {"Implementation", "Includes"} -> [Name |-> "", Source |-> ""]
      [] kind = "Member" -> [Name |-> "", Type |-> 0, Init |-> 0, Attribute |-> FALSE,
                             Static |-> FALSE, Const |-> FALSE, Readonly |-> FALSE,
                             Required |-> FALSE, Specialization |-> "",
                             Parameters |-> <<>>, Annotations |-> <<>>]
      [] kind \in {"CustomOp", "TypeName"} -> [Name |-> ""]
      [] kind \in {"Iterable", "RecordType"} -> [Key |-> 0, Elem |-> 0]
      [] kind = "Callback" -> [Name |-> "", Return |-> 0, Parameters |-> <<>>]
      [] kind = "Enum" -> [Annotations |-> <<>>, Name |-> "", Values |-> <<>>]
      [] kind = "Typedef" -> [Annotations |-> <<>>, Name |-> "", Type |-> 0]
      [] kind = "SequenceType" -> [Elem |-> 0]
      [] kind = "ParametrizedType" -> [Name |-> "", Elems |-> <<>>]
      [] kind = "UnionType" -> [Types |-> <<>>]
      [] kind = "NullableType" -> [Type |-> 0]
      [] kind = "Literal" -> [Value |-> ""]
      [] OTHER -> [Start |-> 0]

\* &ast.Kind{fields}.
New(kind, fields) == fields @@ (Zero(kind) @@ Base(kind))

\* *base: the Base fields of node base, as an assignment of them copies them.
\* The copy of Errors is the same list of the same ErrorNodes.
BaseOf(m0, base) ==
    Bind(m0, LAMBDA m :
    [Start |-> NodeAt(m.h, base).Start, End |-> NodeAt(m.h, base).End,
     Comments |-> NodeAt(m.h, base).Comments, Errors |-> NodeAt(m.h, base).Errors])

\* n.Base = *base
copyBase(m0, id, base) == Bind(m0, LAMBDA m : setFields(m, id, BaseOf(m, base)))

\* node.field = append(node.field, x).
appendTo(m0, id, field, x) ==
    Bind(m0, LAMBDA m :
    IF id = 0 THEN m ELSE setFields(m, id, field :> appendNode(m.h[id][field], x)))

----------------------------------------------------------------------------
(* The grammar rules (parser_rules.go).  A rule that calls another rule is  *)
(* a frame on stack: fn names the rule, pc the place it has reached, the    *)
(* other fields are its arguments and locals.  One step of the model runs   *)
(* the rule on top of the stack up to its next call of a rule or its        *)
(* return.  An outcome of a step is the machine, the stack and the value    *)
(* returned.                                                                *)

Top == stack[Len(stack)]
Rest == SubSeq(stack, 1, Len(stack) - 1)
M == [p |-> parser, h |-> heap]

Frame(fn, locals) == locals @@ [fn |-> fn, pc |-> "start"]
With(f, locals) == locals @@ f

\* The rule goes on at f.
Goto(m, f) == [m |-> m, stack |-> Append(Rest, f), ret |-> ret]
\* The rule, left at f, calls callee.
Call(m, f, callee) == [m |-> m, stack |-> Append(Append(Rest, f), callee), ret |-> ret]
\* return callee(...): the callee's result is the rule's.
TailCall(m, callee) == [m |-> m, stack |-> Append(Rest, callee), ret |-> ret]
\* The rule returns v.
Return(m, v) == [m |-> m, stack |-> Rest, ret |-> [node |-> v, list |-> <<>>]]

\* return list: a rule that returns a list of nodes.
ReturnList(m, list) == [m |-> m, stack |-> Rest, ret |-> [node |-> 0, list |-> list]]

In(fn) == /\ parser.status = "running"
          /\ stack # <<>>
          /\ Top.fn = fn

\* The step's outcome becomes the next state; a step that a panic or a
\* scanner without tokens has cut short leaves the stack as it found it.
Step(outcome) ==
    \E o \in {outcome} :
        /\ parser' = o.m.p
        /\ heap' = o.m.h
        /\ IF o.m.p.status \in {"running", "returned"}
           THEN stack' = o.stack /\ ret' = o.ret
           ELSE UNCHANGED <<stack, ret>>
        /\ UNCHANGED <<lexer, plex>>

isIdentifierIn(m0, names) ==
    Bind(m0, LAMBDA m :
    isToken(m, {tokenTypeIdentifier}) /\ m.p.currentToken.value \in names)

\* consumeLiteral: a Literal of the identifier or string at the current token.
consumeLiteral(m) ==
    Bind(alloc(m, New("Literal", [Value |-> ""])), LAMBDA a :
    Bind(tryConsumeIdentifier(node(a.m, a.id)), LAMBDA t :
        IF t.ok THEN [m |-> finishNode(setFields(t.m, a.id, [Value |-> t.value])), id |-> a.id]
        ELSE Bind(consume(t.m, {tokenTypeString}), LAMBDA c :
            IF ~c.ok
            THEN [m |-> finishNode(emitError(c.m, "Expected identifier, found token")), id |-> a.id]
            ELSE [m |-> finishNode(setFields(c.m, a.id, [Value |-> c.token.value])), id |-> a.id])))

\* tryConsumeDefaultValue: the literal after "=", nil without one.
tryConsumeDefaultValue(m) ==
    Bind(tryConsume(m, {tokenTypeEquals}), LAMBDA c :
        IF c.ok THEN consumeLiteral(c.m) ELSE [m |-> c.m, id |-> 0])

\* The loop of tryConsumeIdentifiersList.
RECURSIVE identifiersLoop(_, _)
identifiersLoop(m, list) ==
    Bind(consumeIdentifier(m), LAMBDA i :
    Bind(tryConsume(i.m, {tokenTypeComma}), LAMBDA c :
        IF c.ok /\ Running(c.m) THEN identifiersLoop(c.m, Append(list, i.value))
        ELSE [m |-> c.m, list |-> Append(list, i.value)]))

tryConsumeIdentifiersList(m) ==
    Bind(tryConsume(m, {tokenTypeLeftParen}), LAMBDA c :
        IF ~c.ok THEN [m |-> c.m, list |-> <<>>, ok |-> FALSE]
        ELSE Bind(identifiersLoop(c.m, <<>>), LAMBDA l :
                 [m |-> consume(l.m, {tokenTypeRightParen}).m, list |-> l.list, ok |-> TRUE]))

----------------------------------------------------------------------------
(* consumeTopLevel.                                                         *)

\* Parse returns, unless a panic unwinds it.
returned(m0) == Bind(m0, LAMBDA m : IF Running(m) THEN Halt(m, "returned") ELSE m)

\* return n, with the deferred completion of the File.
rootReturn(m, f) == Return(returned(finishNode(m)), f.n)

\* Mutant of rootUnexpected: the token is passed over and the loop goes on.
rootSkipUnexpected(m, f) == Goto(consumeToken(m), With(f, [pc |-> "loop"]))

\* The end of the loop body: the token starts nothing known at the root.
rootUnexpected(m, f) == rootReturn(emitError(m, "Unexpected token at root level"), f)

\* name implements source;  name includes source;
rootImplements(m, f, kind, name) ==
    Bind(alloc(m, New(kind, [Name |-> name])), LAMBDA a :
    Bind(consumeIdentifier(a.m), LAMBDA source :
        Goto(consume(appendTo(setFields(source.m, a.id, [Source |-> source.value]),
                              f.n, "Declarations", a.id),
                     {tokenTypeSemicolon}).m,
             With(f, [pc |-> "loop"]))))

\* case p.isToken(tokenTypeIdentifier)
rootIdentifier(m, f) ==
    Bind(consumeIdentifier(m), LAMBDA name :
    Bind(tryConsumeKeyword(name.m, "implements"), LAMBDA implements :
        IF implements.ok THEN rootImplements(implements.m, f, "Implementation", name.value)
        ELSE Bind(tryConsumeKeyword(implements.m, "includes"), LAMBDA includes :
                 IF includes.ok THEN rootImplements(includes.m, f, "Includes", name.value)
                 ELSE rootUnexpected(includes.m, f))))

rootLoop(m0, f) ==
    Bind(m0, LAMBDA m :
    IF isToken(m, {tokenTypeEOF}) THEN rootReturn(m, f)
    ELSE IF isToken(m, {tokenTypeLeftBracket})
    THEN Call(m, With(f, [pc |-> "declaration"]), Frame("consumeDeclaration", <<>>))
    ELSE IF isIdentifierIn(m, {"interface", "partial", "callback", "dictionary", "enum", "typedef"})
    THEN Call(m, With(f, [pc |-> "declaration"]), Frame("consumeDeclaration", <<>>))
    ELSE IF isToken(m, {tokenTypeIdentifier}) THEN rootIdentifier(m, f)
    ELSE rootUnexpected(m, f))

\* The first token: an error token ends the parse with its message.
rootFirst(m0, f) ==
    Bind(m0, LAMBDA m :
    IF m.p.currentToken.kind = tokenTypeError
    THEN rootReturn(emitError(m, m.p.currentToken.value), f)
    ELSE Goto(m, With(f, [pc |-> "loop"])))

rootStart(m, f) ==
    Bind(alloc(m, New("File", [Declarations |-> <<>>])), LAMBDA a :
        rootFirst(consumeToken(node(a.m, a.id)), With(f, [n |-> a.id])))

consumeTopLevel ==
    /\ In("consumeTopLevel")
    /\ Step(CASE Top.pc = "start" -> rootStart(M, Top)
              [] Top.pc = "loop" -> rootLoop(M, Top)
              [] Top.pc = "declaration" ->
                    Goto(appendTo(M, Top.n, "Declarations", ret.node), With(Top, [pc |-> "loop"])))

----------------------------------------------------------------------------
(* consumeDeclaration.                                                      *)

\* for !p.isToken(types...) { p.consumeToken() }
RECURSIVE skipUntil(_, _)
skipUntil(m0, types) ==
    Bind(m0, LAMBDA m :
    IF ~Running(m) THEN m
    ELSE IF isToken(m, types) THEN m
    ELSE skipUntil(consumeToken(m), types))

\* The two loops of the recovery: the tokens up to "{" and then up to "}" are
\* passed over.
skipToBrace(m) ==
    skipUntil(skipUntil(m, {tokenTypeLeftBrace, tokenTypeEOF}),
              {tokenTypeRightBrace, tokenTypeEOF})

\* return &ast.Interface{Base: *base}
declarationPlaceholder(m0, f) ==
    Bind(m0, LAMBDA m :
    Bind(alloc(m, BaseOf(m, f.base) @@ New("Interface", <<>>)), LAMBDA a : Return(a.m, a.id)))

\* The end of consumeDeclaration, reached when no declaration is recognised:
\* an error, the tokens up to "}" passed over, a ";" expected, and an empty
\* Interface returned in the declaration's place.
declarationRecovery(m, f) ==
    declarationPlaceholder(
        finishNode(consume(skipToBrace(emitError(m, "Expected interface or dictionary")),
                           {tokenTypeSemicolon}).m), f)

declarationStart(m, f) ==
    Bind(alloc(m, Base("Base")), LAMBDA a :
        Call(node(a.m, a.id), With(f, [pc |-> "annotations", base |-> a.id]),
             Frame("tryConsumeAnnotations", <<>>)))

\* case p.isIdentifier("callback")
declarationCallback(m, f) ==
    Bind(tryConsumeKeyword(consumeIdentifier(m).m, "interface"), LAMBDA interface :
        IF interface.ok
        THEN TailCall(interface.m, Frame("consumeInterface",
                 [partial |-> FALSE, callback |-> TRUE, ann |-> f.ann, base |-> f.base]))
        ELSE Bind(consumeIdentifier(interface.m), LAMBDA name :
                 Call(consume(name.m, {tokenTypeEquals}).m,
                      With(f, [pc |-> "return", name |-> name.value]),
                      Frame("consumeType", <<>>))))

\* case p.isIdentifier("partial")
declarationPartial(m, f) ==
    Bind(isNextIdentifier(m, "interface"), LAMBDA interface :
        IF interface.ok
        THEN TailCall(interface.m, Frame("consumeInterfaceOrMixin", [ann |-> f.ann, base |-> f.base]))
        ELSE Bind(isNextIdentifier(interface.m, "dictionary"), LAMBDA dictionary :
                 IF dictionary.ok
                 THEN TailCall(dictionary.m,
                               Frame("consumeDictionary", [ann |-> f.ann, base |-> f.base]))
                 ELSE declarationRecovery(dictionary.m, f)))

declarationSwitch(m0, f) ==
    Bind(m0, LAMBDA m :
    IF isIdentifier(m, "enum")
    THEN TailCall(m, Frame("consumeEnum", [ann |-> f.ann, base |-> f.base]))
    ELSE IF isIdentifier(m, "typedef")
    THEN TailCall(m, Frame("consumeTypedef", [ann |-> f.ann, base |-> f.base]))
    ELSE IF isIdentifier(m, "callback") THEN declarationCallback(m, f)
    ELSE IF isIdentifier(m, "interface")
    THEN TailCall(m, Frame("consumeInterfaceOrMixin", [ann |-> f.ann, base |-> f.base]))
    ELSE IF isIdentifier(m, "dictionary")
    THEN TailCall(m, Frame("consumeDictionary", [ann |-> f.ann, base |-> f.base]))
    ELSE IF isIdentifier(m, "partial") THEN declarationPartial(m, f)
    ELSE declarationRecovery(m, f))

\* return &ast.Callback{Base: *base, Name: name, Return: ret, Parameters: par}
declarationCallbackReturn(m0, f, par) ==
    Bind(m0, LAMBDA m :
    Bind(alloc(m, BaseOf(m, f.base)
                  @@ New("Callback", [Name |-> f.name, Return |-> f.return, Parameters |-> par])),
         LAMBDA a : Return(a.m, a.id)))

consumeDeclaration ==
    /\ In("consumeDeclaration")
    /\ Step(CASE Top.pc = "start" -> declarationStart(M, Top)
              [] Top.pc = "annotations" -> declarationSwitch(M, With(Top, [ann |-> ret.list]))
              [] Top.pc = "return" ->
                    Call(M, With(Top, [pc |-> "parameters", return |-> ret.node]),
                         Frame("consumeParameters", <<>>))
              [] Top.pc = "parameters" ->
                    declarationCallbackReturn(
                        finishNode(consume(M, {tokenTypeSemicolon}).m), Top, ret.list))

consumeInterfaceOrMixin ==
    /\ In("consumeInterfaceOrMixin")
    /\ Step(Bind(tryConsumeKeyword(M, "partial"), LAMBDA partial :
            Bind(tryConsumeKeyword(consumeKeyword(partial.m, "interface").m, "mixin"), LAMBDA mixin :
                IF mixin.ok
                THEN TailCall(mixin.m, Frame("consumeMixin", [ann |-> Top.ann, base |-> Top.base]))
                ELSE TailCall(mixin.m, Frame("consumeInterface",
                         [partial |-> partial.ok, callback |-> FALSE,
                          ann |-> Top.ann, base |-> Top.base])))))

----------------------------------------------------------------------------
(* consumeInterface.                                                        *)

\* Name and, after ":", Inherits of the declaration n, then "{".
declarationHead(m, n) ==
    Bind(consumeIdentifier(m), LAMBDA name :
    Bind(tryConsume(name.m, {tokenTypeColon}), LAMBDA colon :
        IF colon.ok
        THEN Bind(consumeIdentifier(colon.m), LAMBDA inherits :
                 consume(setFields(inherits.m, n, [Name |-> name.value, Inherits |-> inherits.value]),
                         {tokenTypeLeftBrace}).m)
        ELSE consume(setFields(colon.m, n, [Name |-> name.value]), {tokenTypeLeftBrace}).m))

\* The "};" after the loop, and the deferred completion of the declaration.
interfaceEnd(m, f) ==
    Return(copyBase(finishNode(consume(consume(m, {tokenTypeRightBrace}).m,
                                       {tokenTypeSemicolon}).m),
                    f.n, f.base), f.n)

\* serializer; jsonifier; stringifier;
interfaceCustomOp(m, f) ==
    Bind(alloc(m, New("CustomOp", [Name |-> ""])), LAMBDA a :
    Bind(consumeIdentifier(node(a.m, a.id)), LAMBDA name :
    Bind(consume(setFields(name.m, a.id, [Name |-> name.value]), {tokenTypeSemicolon}),
         LAMBDA semicolon :
        IF ~semicolon.ok
        THEN Goto(appendTo(finishNode(semicolon.m), f.n, "CustomOps", a.id),
                  With(f, [pc |-> "end"]))
        ELSE Goto(appendTo(finishNode(semicolon.m), f.n, "CustomOps", a.id),
                  With(f, [pc |-> "loop"])))))

\* iterable<
interfaceIterable(m, f) ==
    Bind(alloc(consume(m, {tokenTypeIdentifier}).m, New("Iterable", <<>>)), LAMBDA a :
        Call(consume(node(a.m, a.id), {tokenTypeLeftTri}).m,
             With(f, [pc |-> "iterableElem", iter |-> a.id]), Frame("consumeType", <<>>)))

\* >; after the types of iterable
interfaceIterableEnd(m, f) ==
    Bind(consume(setFields(finishNode(consume(m, {tokenTypeRightTri}).m),
                           f.n, [Iterable |-> f.iter]),
                 {tokenTypeSemicolon}), LAMBDA semicolon :
        IF ~semicolon.ok THEN Goto(semicolon.m, With(f, [pc |-> "end"]))
        ELSE Goto(semicolon.m, With(f, [pc |-> "loop"])))

\* The first type of iterable has been read.
interfaceIterableElem(m, f, type) ==
    Bind(tryConsume(setFields(m, f.iter, [Elem |-> type]), {tokenTypeComma}), LAMBDA comma :
        IF comma.ok
        THEN Call(setFields(comma.m, f.iter, [Key |-> type]),
                  With(f, [pc |-> "iterableKey"]), Frame("consumeType", <<>>))
        ELSE interfaceIterableEnd(comma.m, f))

\* A member has been read.
interfaceMember(m, f, member) ==
    Bind(consume(appendTo(m, f.n, "Members", member), {tokenTypeSemicolon}), LAMBDA semicolon :
        IF ~semicolon.ok
        THEN Goto(emitError(semicolon.m, "Expected semicolon"), With(f, [pc |-> "end"]))
        ELSE Goto(semicolon.m, With(f, [pc |-> "loop"])))

\* The loop body after the test for a custom operation.
interfaceMembers(m0, f) ==
    Bind(m0, LAMBDA m :
    IF isIdentifier(m, "iterable") THEN interfaceIterable(m, f)
    ELSE Call(m, With(f, [pc |-> "member"]), Frame("consumeMember", [dict |-> FALSE])))

interfaceLoop(m0, f) ==
    Bind(m0, LAMBDA m :
    IF isToken(m, {tokenTypeRightBrace}) THEN interfaceEnd(m, f)
    ELSE IF isIdentifierIn(m, {"serializer", "jsonifier", "stringifier"})
    THEN Bind(isNextToken(m, {tokenTypeSemicolon}), LAMBDA ahead :
             IF ahead.ok THEN interfaceCustomOp(ahead.m, f)
             ELSE interfaceMembers(ahead.m, f))
    ELSE interfaceMembers(m, f))

interfaceStart(m, f) ==
    Bind(alloc(m, New("Interface", [Annotations |-> f.ann, Partial |-> f.partial,
                                    Callback |-> f.callback])), LAMBDA a :
        Goto(declarationHead(a.m, a.id), With(f, [pc |-> "loop", n |-> a.id])))

consumeInterface ==
    /\ In("consumeInterface")
    /\ Step(CASE Top.pc = "start" -> interfaceStart(M, Top)
              [] Top.pc = "loop" -> interfaceLoop(M, Top)
              [] Top.pc = "iterableElem" -> interfaceIterableElem(M, Top, ret.node)
              [] Top.pc = "iterableKey" ->
                    interfaceIterableEnd(setFields(M, Top.iter, [Elem |-> ret.node]), Top)
              [] Top.pc = "member" -> interfaceMember(M, Top, ret.node)
              [] Top.pc = "end" -> interfaceEnd(M, Top))

----------------------------------------------------------------------------
(* consumeMixin.                                                            *)

mixinEnd(m, f) ==
    Return(copyBase(finishNode(consume(consume(m, {tokenTypeRightBrace}).m,
                                       {tokenTypeSemicolon}).m),
                    f.n, f.base), f.n)

\* serializer; jsonifier;
mixinCustomOp(m0, f) ==
    Bind(m0, LAMBDA m :
    Bind(alloc(m, New("CustomOp", [Name |-> ""])), LAMBDA a :
    Bind(consume(consume(setFields(node(a.m, a.id), a.id, [Name |-> m.p.currentToken.value]),
                         {tokenTypeIdentifier}).m,
                 {tokenTypeSemicolon}), LAMBDA semicolon :
        IF ~semicolon.ok
        THEN Goto(appendTo(finishNode(semicolon.m), f.n, "CustomOps", a.id),
                  With(f, [pc |-> "end"]))
        ELSE Goto(appendTo(finishNode(semicolon.m), f.n, "CustomOps", a.id),
                  With(f, [pc |-> "loop"])))))

\* iterable<
mixinIterable(m, f) ==
    Bind(alloc(consume(m, {tokenTypeIdentifier}).m, New("Iterable", <<>>)), LAMBDA a :
        Call(consume(node(a.m, a.id), {tokenTypeLeftTri}).m,
             With(f, [pc |-> "iterableElem", iter |-> a.id]), Frame("consumeType", <<>>)))

\* The type of iterable has been read.
mixinIterableElem(m, f, type) ==
    Bind(consume(setFields(finishNode(consume(setFields(m, f.iter, [Elem |-> type]),
                                              {tokenTypeRightTri}).m),
                           f.n, [Iterable |-> f.iter]),
                 {tokenTypeSemicolon}), LAMBDA semicolon :
        IF ~semicolon.ok THEN Goto(semicolon.m, With(f, [pc |-> "end"]))
        ELSE Goto(semicolon.m, With(f, [pc |-> "loop"])))

mixinMember(m, f, member) ==
    Bind(consume(appendTo(m, f.n, "Members", member), {tokenTypeSemicolon}), LAMBDA semicolon :
        IF ~semicolon.ok
        THEN Goto(emitError(semicolon.m, "Expected semicolon"), With(f, [pc |-> "end"]))
        ELSE Goto(semicolon.m, With(f, [pc |-> "loop"])))

mixinLoop(m0, f) ==
    Bind(m0, LAMBDA m :
    IF isToken(m, {tokenTypeRightBrace}) THEN mixinEnd(m, f)
    ELSE IF isIdentifierIn(m, {"serializer", "jsonifier"}) THEN mixinCustomOp(m, f)
    ELSE IF isIdentifier(m, "iterable") THEN mixinIterable(m, f)
    ELSE Call(m, With(f, [pc |-> "member"]), Frame("consumeMember", [dict |-> FALSE])))

mixinStart(m, f) ==
    Bind(alloc(m, New("Mixin", [Annotations |-> f.ann])), LAMBDA a :
        Goto(declarationHead(a.m, a.id), With(f, [pc |-> "loop", n |-> a.id])))

consumeMixin ==
    /\ In("consumeMixin")
    /\ Step(CASE Top.pc = "start" -> mixinStart(M, Top)
              [] Top.pc = "loop" -> mixinLoop(M, Top)
              [] Top.pc = "iterableElem" -> mixinIterableElem(M, Top, ret.node)
              [] Top.pc = "member" -> mixinMember(M, Top, ret.node)
              [] Top.pc = "end" -> mixinEnd(M, Top))

----------------------------------------------------------------------------
(* consumeDictionary, consumeTypedef, consumeEnum.                          *)

dictionaryEnd(m, f) ==
    Return(copyBase(finishNode(consume(consume(m, {tokenTypeRightBrace}).m,
                                       {tokenTypeSemicolon}).m),
                    f.n, f.base), f.n)

dictionaryLoop(m0, f) ==
    Bind(m0, LAMBDA m :
    IF isToken(m, {tokenTypeRightBrace}) THEN dictionaryEnd(m, f)
    ELSE Call(m, With(f, [pc |-> "member"]), Frame("consumeMember", [dict |-> TRUE])))

dictionaryMember(m, f, member) ==
    Bind(consume(appendTo(m, f.n, "Members", member), {tokenTypeSemicolon}), LAMBDA semicolon :
        IF ~semicolon.ok
        THEN Goto(emitError(semicolon.m, "Expected semicolon"), With(f, [pc |-> "end"]))
        ELSE Goto(semicolon.m, With(f, [pc |-> "loop"])))

dictionaryStart(m, f) ==
    Bind(alloc(m, New("Dictionary", [Annotations |-> f.ann])), LAMBDA a :
    Bind(tryConsumeKeyword(a.m, "partial"), LAMBDA partial :
        Goto(declarationHead(consumeKeyword(setFields(partial.m, a.id, [Partial |-> partial.ok]),
                                            "dictionary").m, a.id),
             With(f, [pc |-> "loop", n |-> a.id]))))

consumeDictionary ==
    /\ In("consumeDictionary")
    /\ Step(CASE Top.pc = "start" -> dictionaryStart(M, Top)
              [] Top.pc = "loop" -> dictionaryLoop(M, Top)
              [] Top.pc = "member" -> dictionaryMember(M, Top, ret.node)
              [] Top.pc = "end" -> dictionaryEnd(M, Top))

typedefStart(m, f) ==
    Bind(alloc(m, New("Typedef", [Annotations |-> f.ann])), LAMBDA a :
        Call(consumeKeyword(a.m, "typedef").m, With(f, [pc |-> "type", n |-> a.id]),
             Frame("consumeType", <<>>)))

typedefEnd(m, f, type) ==
    Bind(consumeIdentifier(setFields(m, f.n, [Type |-> type])), LAMBDA name :
        Return(copyBase(finishNode(consume(setFields(name.m, f.n, [Name |-> name.value]),
                                           {tokenTypeSemicolon}).m),
                        f.n, f.base), f.n))

consumeTypedef ==
    /\ In("consumeTypedef")
    /\ Step(CASE Top.pc = "start" -> typedefStart(M, Top)
              [] Top.pc = "type" -> typedefEnd(M, Top, ret.node))

\* One value of the enum: the literal read is appended to n.Values.
enumValue(m, n) == Bind(consumeLiteral(m), LAMBDA l : appendTo(l.m, n, "Values", l.id))

\* Mutant of enumValues: a value is read after every comma, "}" or not.
RECURSIVE enumValuesStrict(_, _, _)
enumValuesStrict(m0, n, some) ==
    Bind(m0, LAMBDA m :
    IF ~Running(m) THEN m
    ELSE IF isToken(m, {tokenTypeRightBrace}) THEN m
    ELSE IF ~some
    THEN enumValuesStrict(enumValue(m, n), n, TRUE)
    ELSE Bind(tryConsume(m, {tokenTypeComma}), LAMBDA comma :
             IF ~comma.ok THEN comma.m
             ELSE LET valued == enumValue(comma.m, n)
                  IN  IF isToken(comma.m, {tokenTypeRightBrace}) THEN valued
                      ELSE enumValuesStrict(valued, n, TRUE)))

\* The loop of consumeEnum over the values; some is len(n.Values) != 0.
RECURSIVE enumValues(_, _, _)
enumValues(m0, n, some) ==
    Bind(m0, LAMBDA m :
    IF ~Running(m) THEN m
    ELSE IF isToken(m, {tokenTypeRightBrace}) THEN m
    ELSE IF ~some
    THEN enumValues(enumValue(m, n), n, TRUE)
    ELSE Bind(tryConsume(m, {tokenTypeComma}), LAMBDA comma :
             IF ~comma.ok THEN comma.m
             ELSE IF isToken(comma.m, {tokenTypeRightBrace}) THEN comma.m
             ELSE enumValues(enumValue(comma.m, n), n, TRUE)))

\* }; after the values, and the deferred completion of the declaration.
enumEnd(m, f, n) ==
    Return(copyBase(finishNode(consume(consume(tryConsume(m, {tokenTypeComma}).m,
                                               {tokenTypeRightBrace}).m,
                                       {tokenTypeSemicolon}).m),
                    n, f.base), n)

consumeEnum ==
    /\ In("consumeEnum")
    /\ Step(Bind(alloc(M, New("Enum", [Annotations |-> Top.ann])), LAMBDA a :
            Bind(consumeIdentifier(consumeKeyword(a.m, "enum").m), LAMBDA name :
                enumEnd(enumValues(consume(setFields(name.m, a.id, [Name |-> name.value]),
                                           {tokenTypeLeftBrace}).m,
                                   a.id, FALSE),
                        Top, a.id))))

----------------------------------------------------------------------------
(* consumeMember.                                                           *)

memberStart(m, f) ==
    Bind(alloc(m, New("Member", <<>>)), LAMBDA a :
        Call(node(a.m, a.id), With(f, [pc |-> "annotations", n |-> a.id]),
             Frame("tryConsumeAnnotations", <<>>)))

\* getter, setter, deleter or stringifier before the member.
memberSpecialization(m0) ==
    Bind(m0, LAMBDA m :
    IF isIdentifierIn(m, {"getter", "setter", "deleter"}) THEN consumeIdentifier(m)
    ELSE Bind(tryConsumeKeyword(m, "stringifier"), LAMBDA stringifier :
             [m |-> stringifier.m, value |-> IF stringifier.ok THEN "stringifier" ELSE ""]))

\* The member's annotations, when it has none yet, and then its type.
memberAnnotations(m0, f, ann) ==
    Bind(m0, LAMBDA m :
    IF Len(ann) = 0
    THEN Call(m, With(f, [pc |-> "annotations2"]), Frame("tryConsumeAnnotations", <<>>))
    ELSE Call(m, With(f, [pc |-> "type"]), Frame("consumeType", <<>>)))

\* The member's modifiers, after its annotations ann.
memberModifiers(m, f, ann) ==
    Bind(memberSpecialization(m), LAMBDA specialization :
    Bind(tryConsumeKeyword(specialization.m, "const"), LAMBDA const :
    Bind(tryConsumeKeyword(const.m, "static"), LAMBDA static :
    Bind(tryConsumeKeyword(static.m, "readonly"), LAMBDA readonly :
    Bind(tryConsumeKeyword(readonly.m, "required"), LAMBDA required :
    Bind(tryConsumeKeyword(required.m, "attribute"), LAMBDA attribute :
        memberAnnotations(
            setFields(attribute.m, f.n,
                [Annotations |-> ann, Specialization |-> specialization.value,
                 Const |-> const.ok, Static |-> static.ok, Readonly |-> readonly.ok,
                 Required |-> required.ok,
                 Attribute |-> IF attribute.ok THEN TRUE ELSE f.dict]),
            With(f, [const |-> const.ok,
                     attribute |-> IF attribute.ok THEN TRUE ELSE f.dict]),
            ann)))))))

memberEnd(m, f) ==
    Bind(tryConsumeDefaultValue(m), LAMBDA init :
        Return(finishNode(setFields(init.m, f.n, [Init |-> init.id])), f.n))

\* Mutant of memberType: the parameters are read whatever the member is.
memberTypeAlways(m, f, type) ==
    Bind(tryConsumeIdentifier(setFields(m, f.n, [Type |-> type])), LAMBDA name :
        Call(setFields(name.m, f.n, [Name |-> name.value]),
             With(f, [pc |-> "parameters"]), Frame("consumeParameters", <<>>)))

\* The member's type has been read.
memberType(m, f, type) ==
    Bind(tryConsumeIdentifier(setFields(m, f.n, [Type |-> type])), LAMBDA name :
        IF ~f.attribute /\ ~f.const
        THEN Call(setFields(name.m, f.n, [Name |-> name.value]),
                  With(f, [pc |-> "parameters"]), Frame("consumeParameters", <<>>))
        ELSE Goto(setFields(name.m, f.n, [Name |-> name.value]), With(f, [pc |-> "init"])))

consumeMember ==
    /\ In("consumeMember")
    /\ Step(CASE Top.pc = "start" -> memberStart(M, Top)
              [] Top.pc = "annotations" -> memberModifiers(M, Top, ret.list)
              [] Top.pc = "annotations2" ->
                    Call(setFields(M, Top.n, [Annotations |-> ret.list]),
                         With(Top, [pc |-> "type"]), Frame("consumeType", <<>>))
              [] Top.pc = "type" -> memberType(M, Top, ret.node)
              [] Top.pc = "parameters" ->
                    Goto(setFields(M, Top.n, [Parameters |-> ret.list]), With(Top, [pc |-> "init"]))
              [] Top.pc = "init" -> memberEnd(M, Top))

----------------------------------------------------------------------------
(* tryConsumeAnnotations, consumeAnnotationPart.                            *)

\* The head of the outer loop: "[" opens a list of annotations.
annotationsOpen(m, f) ==
    Bind(tryConsume(m, {tokenTypeLeftBracket}), LAMBDA open :
        IF ~open.ok THEN ReturnList(open.m, f.out)
        ELSE Call(open.m, With(f, [pc |-> "part"]), Frame("consumeAnnotationPart", <<>>)))

\* "]" after the annotations of a list.
annotationsClose(m, f) ==
    Bind(consume(m, {tokenTypeRightBracket}), LAMBDA close :
        IF ~close.ok THEN ReturnList(close.m, f.out)
        ELSE Goto(close.m, With(f, [pc |-> "open"])))

\* An annotation has been read: "," brings another, "]" closes the list.
annotationsPart(m, f) ==
    Bind(tryConsume(m, {tokenTypeComma}), LAMBDA comma :
        IF comma.ok THEN Call(comma.m, f, Frame("consumeAnnotationPart", <<>>))
        ELSE annotationsClose(comma.m, f))

tryConsumeAnnotations ==
    /\ In("tryConsumeAnnotations")
    /\ Step(CASE Top.pc = "start" -> annotationsOpen(M, With(Top, [out |-> <<>>]))
              [] Top.pc = "open" -> annotationsOpen(M, Top)
              [] Top.pc = "part" ->
                    annotationsPart(M, With(Top, [out |-> appendNode(Top.out, ret.node)])))

\* The value after "=": a list of identifiers in parentheses or an identifier.
annotationValue(m, n) ==
    Bind(tryConsumeIdentifiersList(m), LAMBDA list :
        IF list.ok THEN setFields(list.m, n, [Values |-> list.list])
        ELSE Bind(consumeIdentifier(list.m), LAMBDA v :
                 setFields(v.m, n, [Value |-> v.value])))

\* Mutant of annotationPartStart: "(" is looked for after a value as well.
annotationPartBoth(m, f) ==
    Bind(alloc(m, New("Annotation", <<>>)), LAMBDA a :
    Bind(consumeIdentifier(node(a.m, a.id)), LAMBDA name :
    Bind(tryConsume(setFields(name.m, a.id, [Name |-> name.value]), {tokenTypeEquals}),
         LAMBDA equals :
    Bind(IF equals.ok THEN annotationValue(equals.m, a.id) ELSE equals.m, LAMBDA valued :
        IF isToken(valued, {tokenTypeLeftParen})
        THEN Call(valued, With(f, [pc |-> "parameters", n |-> a.id]),
                  Frame("consumeParameters", <<>>))
        ELSE Return(finishNode(valued), a.id)))))

annotationPartStart(m, f) ==
    Bind(alloc(m, New("Annotation", <<>>)), LAMBDA a :
    Bind(consumeIdentifier(node(a.m, a.id)), LAMBDA name :
    Bind(tryConsume(setFields(name.m, a.id, [Name |-> name.value]), {tokenTypeEquals}),
         LAMBDA equals :
        IF equals.ok THEN Return(finishNode(annotationValue(equals.m, a.id)), a.id)
        ELSE IF isToken(equals.m, {tokenTypeLeftParen})
        THEN Call(equals.m, With(f, [pc |-> "parameters", n |-> a.id]),
                  Frame("consumeParameters", <<>>))
        ELSE Return(finishNode(equals.m), a.id))))

consumeAnnotationPart ==
    /\ In("consumeAnnotationPart")
    /\ Step(CASE Top.pc = "start" -> annotationPartStart(M, Top)
              [] Top.pc = "parameters" ->
                    Return(finishNode(setFields(M, Top.n, [Parameters |-> ret.list])), Top.n))

----------------------------------------------------------------------------
(* consumeType.                                                             *)

\* expandedTypeKeywords[typeName], empty for a name that is no key.
expandedTypeKeywords(typeName) ==
    CASE typeName = "unsigned" -> <<"short", "long">>
      [] typeName = "long" -> <<"long">>
      [] typeName = "unsigned long" -> <<"long">>
      [] typeName = "unrestricted" -> <<"float", "double">>
      [] OTHER -> <<>>

\* The current token is one of the words that may follow typeName.
isSecondary(m0, typeName) ==
    Bind(m0, LAMBDA m :
    /\ isToken(m, {tokenTypeIdentifier})
    /\ \E i \in 1..Len(expandedTypeKeywords(typeName)) :
          expandedTypeKeywords(typeName)[i] = m.p.currentToken.value)

\* Mutant of expandTypeName: the table is looked up once, for the first word.
expandTypeNameOnce(m0, typeName) ==
    Bind(m0, LAMBDA m :
    IF Running(m) /\ isSecondary(m, typeName)
    THEN [m |-> consume(m, {tokenTypeIdentifier}).m,
          value |-> typeName \o " " \o m.p.currentToken.value]
    ELSE [m |-> m, value |-> typeName])

\* The loop that extends typeName by each next word that the table of two-word
\* type names allows after it.
RECURSIVE expandTypeName(_, _)
expandTypeName(m0, typeName) ==
    Bind(m0, LAMBDA m :
    IF Running(m) /\ isSecondary(m, typeName)
    THEN expandTypeName(consume(m, {tokenTypeIdentifier}).m,
                        typeName \o " " \o m.p.currentToken.value)
    ELSE [m |-> m, value |-> typeName])

\* nl := &ast.NullableType{Base: *base, Type: otyp}; nl.End++
nullable(m0, base, otyp) ==
    Bind(m0, LAMBDA m :
    alloc(m, [End |-> NodeAt(m.h, base).End + 1]
             @@ (BaseOf(m, base) @@ New("NullableType", [Type |-> otyp]))))

\* Mutant of typeReturn: every "?" that follows wraps the type once more (two
\* of them here).
typeReturnRepeated(m, f, otyp) ==
    Bind(tryConsume(copyBase(finishNode(m), otyp, f.base), {tokenTypeQuestionMark}),
         LAMBDA question :
        IF question.ok
        THEN Bind(nullable(question.m, f.base, otyp), LAMBDA nl :
             Bind(tryConsume(nl.m, {tokenTypeQuestionMark}), LAMBDA again :
                 IF again.ok
                 THEN Bind(nullable(again.m, f.base, nl.id), LAMBDA nl2 : Return(nl2.m, nl2.id))
                 ELSE Return(again.m, nl.id)))
        ELSE Return(question.m, otyp))

\* return otyp, with the deferred function: the Base node is completed and
\* copied into otyp; a "?" wraps otyp in a NullableType with the same Base,
\* its End one further.
typeReturn(m, f, otyp) ==
    Bind(tryConsume(copyBase(finishNode(m), otyp, f.base), {tokenTypeQuestionMark}),
         LAMBDA question :
        IF question.ok
        THEN Bind(nullable(question.m, f.base, otyp), LAMBDA nl : Return(nl.m, nl.id))
        ELSE Return(question.m, otyp))

\* , (optional) and > after the loop over the elements of a parametrized type.
elemsEnd(m, f) ==
    typeReturn(consume(tryConsume(m, {tokenTypeComma}).m, {tokenTypeRightTri}).m, f, f.otyp)

\* The loop body: "," when an element has been read, then the next element.
elemsNext(m0, f) ==
    Bind(m0, LAMBDA m :
    IF isToken(m, {tokenTypeRightTri}) THEN Goto(m, With(f, [pc |-> "elemsEnd"]))
    ELSE Call(m, With(f, [pc |-> "elems"]), Frame("consumeType", <<>>)))

\* for !p.isToken(tokenTypeRightTri): the loop over the elements of a
\* parametrized type; f.some is len(pr.Elems) != 0.
elemsLoop(m0, f) ==
    Bind(m0, LAMBDA m :
    IF isToken(m, {tokenTypeRightTri}) THEN Goto(m, With(f, [pc |-> "elemsEnd"]))
    ELSE IF f.some THEN elemsNext(consume(m, {tokenTypeComma}).m, f)
    ELSE elemsNext(m, f))

\* return &ast.TypeName{Name: typeName}
typeNameReturn(m, f, typeName) ==
    Bind(alloc(m, New("TypeName", [Name |-> typeName])), LAMBDA tn : typeReturn(tn.m, f, tn.id))

\* pr := &ast.ParametrizedType{Name: typeName}
parametrized(m, f, typeName) ==
    Bind(alloc(m, New("ParametrizedType", [Name |-> typeName])), LAMBDA pr :
        Goto(pr.m, With(f, [pc |-> "elemsLoop", otyp |-> pr.id, some |-> FALSE])))

\* A type that starts with a name.
typeNamed(m, f) ==
    Bind(consumeIdentifier(m), LAMBDA name :
    Bind(expandTypeName(name.m, name.value), LAMBDA typeName :
    Bind(tryConsume(typeName.m, {tokenTypeLeftTri}), LAMBDA tri :
        IF tri.ok THEN parametrized(tri.m, f, typeName.value)
        ELSE typeNameReturn(tri.m, f, typeName.value))))

\* The type kind begins: its node, "<", and its first type.
typeOf(m, f, kind, pc) ==
    Bind(alloc(m, New(kind, <<>>)), LAMBDA a :
        Call(consume(a.m, {tokenTypeLeftTri}).m, With(f, [pc |-> pc, otyp |-> a.id]),
             Frame("consumeType", <<>>)))

\* return &ast.AnyType{}
typeAny(m, f) ==
    Bind(alloc(m, New("AnyType", <<>>)), LAMBDA a : typeReturn(a.m, f, a.id))

typeSwitch(m, f) ==
    Bind(tryConsumeKeyword(m, "any"), LAMBDA any :
        IF any.ok THEN typeAny(any.m, f)
        ELSE Bind(tryConsumeKeyword(any.m, "sequence"), LAMBDA sequence :
        IF sequence.ok THEN typeOf(sequence.m, f, "SequenceType", "sequenceElem")
        ELSE Bind(tryConsumeKeyword(sequence.m, "record"), LAMBDA record :
        IF record.ok THEN typeOf(record.m, f, "RecordType", "recordKey")
        ELSE Bind(tryConsume(record.m, {tokenTypeLeftParen}), LAMBDA paren :
        IF paren.ok
        THEN Call(paren.m, With(f, [pc |-> "union", types |-> <<>>]), Frame("consumeType", <<>>))
        ELSE Goto(paren.m, With(f, [pc |-> "named"]))))))

typeStart(m, f) ==
    Bind(alloc(m, Base("Base")), LAMBDA base :
        typeSwitch(node(base.m, base.id), With(f, [base |-> base.id])))

\* return &ast.UnionType{Types: types}
typeUnionReturn(m, f) ==
    Bind(alloc(m, New("UnionType", [Types |-> f.types])), LAMBDA union :
        typeReturn(union.m, f, union.id))

\* A type of a union has been read: "or" brings another, ")" ends the union.
typeUnion(m, f) ==
    Bind(tryConsumeKeyword(m, "or"), LAMBDA or :
        IF or.ok THEN Call(or.m, f, Frame("consumeType", <<>>))
        ELSE typeUnionReturn(consume(or.m, {tokenTypeRightParen}).m, f))

consumeType ==
    /\ In("consumeType")
    /\ Step(CASE Top.pc = "start" -> typeStart(M, Top)
              [] Top.pc = "named" -> typeNamed(M, Top)
              [] Top.pc \in {"sequenceElem", "recordElem"} ->
                    typeReturn(consume(setFields(M, Top.otyp, [Elem |-> ret.node]),
                                       {tokenTypeRightTri}).m, Top, Top.otyp)
              [] Top.pc = "recordKey" ->
                    Call(consume(setFields(M, Top.otyp, [Key |-> ret.node]), {tokenTypeComma}).m,
                         With(Top, [pc |-> "recordElem"]), Frame("consumeType", <<>>))
              [] Top.pc = "union" ->
                    typeUnion(M, With(Top, [types |-> appendNode(Top.types, ret.node)]))
              [] Top.pc = "elemsLoop" -> elemsLoop(M, Top)
              [] Top.pc = "elems" ->
                    Goto(appendTo(M, Top.otyp, "Elems", ret.node),
                         With(Top, [pc |-> "elemsLoop", some |-> TRUE]))
              [] Top.pc = "elemsEnd" -> elemsEnd(M, Top))

----------------------------------------------------------------------------
(* consumeParameter, consumeParameters.                                     *)

parameterStart(m, f) ==
    Bind(alloc(m, New("Parameter", <<>>)), LAMBDA a :
        Call(node(a.m, a.id), With(f, [pc |-> "annotations", n |-> a.id]),
             Frame("tryConsumeAnnotations", <<>>)))

parameterOptional(m, f, ann) ==
    Bind(tryConsumeKeyword(setFields(m, f.n, [Annotations |-> ann]), "optional"),
         LAMBDA optional :
        Call(setFields(optional.m, f.n, [Optional |-> optional.ok]),
             With(f, [pc |-> "type"]), Frame("consumeType", <<>>)))

parameterEnd(m, f, type) ==
    Bind(tryConsume(setFields(m, f.n, [Type |-> type]), {tokenTypeVariadic}), LAMBDA variadic :
    Bind(consumeIdentifier(setFields(variadic.m, f.n, [Variadic |-> variadic.ok])), LAMBDA name :
    Bind(tryConsumeDefaultValue(setFields(name.m, f.n, [Name |-> name.value])), LAMBDA init :
        Return(finishNode(setFields(init.m, f.n, [Init |-> init.id])), f.n))))

consumeParameter ==
    /\ In("consumeParameter")
    /\ Step(CASE Top.pc = "start" -> parameterStart(M, Top)
              [] Top.pc = "annotations" -> parameterOptional(M, Top, ret.list)
              [] Top.pc = "type" -> parameterEnd(M, Top, ret.node))

parametersStart(m, f) ==
    Bind(tryConsume(consume(m, {tokenTypeLeftParen}).m, {tokenTypeRightParen}), LAMBDA close :
        IF close.ok THEN ReturnList(close.m, <<>>)
        ELSE Call(close.m, With(f, [pc |-> "parameter", out |-> <<>>]),
                  Frame("consumeParameter", <<>>)))

\* A parameter has been read: ")" ends the list, "," brings another.
parametersNext(m, f) ==
    Bind(tryConsume(m, {tokenTypeRightParen}), LAMBDA close :
        IF close.ok THEN ReturnList(close.m, f.out)
        ELSE Bind(consume(close.m, {tokenTypeComma}), LAMBDA comma :
                 IF ~comma.ok THEN ReturnList(comma.m, f.out)
                 ELSE Call(comma.m, f, Frame("consumeParameter", <<>>))))

consumeParameters ==
    /\ In("consumeParameters")
    /\ Step(CASE Top.pc = "start" -> parametersStart(M, Top)
              [] Top.pc = "parameter" ->
                    parametersNext(M, With(Top, [out |-> appendNode(Top.out, ret.node)])))

----------------------------------------------------------------------------
(* Spec: Parse(input) over a set of source texts.  A source text is written *)
(* as its words; Spell gives the runes of a word, a word of one rune being  *)
(* the rune.                                                                *)

\* Longest enumerated source text of Spec, in words.
MaxWords == 3

Spell(word) ==
    CASE word = "any" -> <<"a", "n", "y">>
      [] word = "attribute" -> <<"a", "t", "t", "r", "i", "b", "u", "t", "e">>
      [] word = "callback" -> <<"c", "a", "l", "l", "b", "a", "c", "k">>
      [] word = "const" -> <<"c", "o", "n", "s", "t">>
      [] word = "dictionary" -> <<"d", "i", "c", "t", "i", "o", "n", "a", "r", "y">>
      [] word = "enum" -> <<"e", "n", "u", "m">>
      [] word = "foo" -> <<"f", "o", "o">>
      [] word = "getter" -> <<"g", "e", "t", "t", "e", "r">>
      [] word = "implements" -> <<"i", "m", "p", "l", "e", "m", "e", "n", "t", "s">>
      [] word = "includes" -> <<"i", "n", "c", "l", "u", "d", "e", "s">>
      [] word = "interface" -> <<"i", "n", "t", "e", "r", "f", "a", "c", "e">>
      [] word = "iterable" -> <<"i", "t", "e", "r", "a", "b", "l", "e">>
      [] word = "jsonifier" -> <<"j", "s", "o", "n", "i", "f", "i", "e", "r">>
      [] word = "long" -> <<"l", "o", "n", "g">>
      [] word = "mixin" -> <<"m", "i", "x", "i", "n">>
      [] word = "optional" -> <<"o", "p", "t", "i", "o", "n", "a", "l">>
      [] word = "or" -> <<"o", "r">>
      [] word = "partial" -> <<"p", "a", "r", "t", "i", "a", "l">>
      [] word = "record" -> <<"r", "e", "c", "o", "r", "d">>
      [] word = "required" -> <<"r", "e", "q", "u", "i", "r", "e", "d">>
      [] word = "sequence" -> <<"s", "e", "q", "u", "e", "n", "c", "e">>
      [] word = "short" -> <<"s", "h", "o", "r", "t">>
      [] word = "double" -> <<"d", "o", "u", "b", "l", "e">>
      [] word = "unrestricted" -> <<"u", "n", "r", "e", "s", "t", "r", "i", "c", "t", "e", "d">>
      [] word = "serializer" -> <<"s", "e", "r", "i", "a", "l", "i", "z", "e", "r">>
      [] word = "typedef" -> <<"t", "y", "p", "e", "d", "e", "f">>
      [] word = "unsigned" -> <<"u", "n", "s", "i", "g", "n", "e", "d">>
      [] word = "stringifier" -> <<"s", "t", "r", "i", "n", "g", "i", "f", "i", "e", "r">>
      [] word = "\"b\"" -> <<"\"", "b", "\"">>
      [] OTHER -> <<word>>

RECURSIVE Source(_)
Source(ws) == IF ws = <<>> THEN <<>> ELSE Spell(Head(ws)) \o Source(Tail(ws))

\* The words ws with one space between each two.
RECURSIVE Spaced(_)
Spaced(ws) == IF Len(ws) <= 1 THEN ws ELSE <<Head(ws), " ">> \o Spaced(Tail(ws))

\* n spaces.
Blank(n) == [i \in 1..n |-> " "]

\* interface A { attribute long x; };
SrcInterface ==
    Source(<<"interface", " ", "A", " ", "{", " ", "attribute", " ", "long", " ", 
             "x", ";", " ", "}", ";">>)

\* partial interface A : B { serializer; iterable<A, B>; [X] getter any f(optional A a, B... b); };
SrcPartial ==
    Source(<<"partial", " ", "interface", " ", "A", " ", ":", " ", "B", " ", "{", 
             " ", "serializer", ";", " ", "iterable", "<", "A", ",", " ", "B", 
             ">", ";", " ", "[", "X", "]", " ", "getter", " ", "any", " ", "f", 
             "(", "optional", " ", "A", " ", "a", ",", " ", "B", ".", ".", ".", 
             " ", "b", ")", ";", " ", "}", ";">>)

\* interface mixin M { jsonifier; iterable<A>; const unsigned long long x = y; };
SrcMixin ==
    Source(<<"interface", " ", "mixin", " ", "M", " ", "{", " ", "jsonifier", ";", 
             " ", "iterable", "<", "A", ">", ";", " ", "const", " ", "unsigned", 
             " ", "long", " ", "long", " ", "x", " ", "=", " ", "y", ";", " ", 
             "}", ";">>)

\* partial dictionary D : B { required A a = "s"; };
SrcDictionary ==
    Source(<<"partial", " ", "dictionary", " ", "D", " ", ":", " ", "B", " ", "{", 
             " ", "required", " ", "A", " ", "a", " ", "=", " ", "\"", "s", "\"", 
             ";", " ", "}", ";">>)

\* typedef (A or sequence<B>?) T; typedef record<A, B> R; typedef A<B, A> P;
SrcTypedef ==
    Source(<<"typedef", " ", "(", "A", " ", "or", " ", "sequence", "<", "B", ">", 
             "?", ")", " ", "T", ";", " ", "typedef", " ", "record", "<", "A", 
             ",", " ", "B", ">", " ", "R", ";", " ", "typedef", " ", "A", "<", 
             "B", ",", " ", "A", ">", " ", "P", ";">>)

\* enum E { "a", "b", };
SrcEnum ==
    Source(<<"enum", " ", "E", " ", "{", " ", "\"", "a", "\"", ",", " ", "\"", 
             "b", "\"", ",", " ", "}", ";">>)

\* callback C = any (A a); callback interface I {};
SrcCallback ==
    Source(<<"callback", " ", "C", " ", "=", " ", "any", " ", "(", "A", " ", "a", 
             ")", ";", " ", "callback", " ", "interface", " ", "I", " ", "{", "}", 
             ";">>)

\* A implements B; A includes B;
SrcImplements ==
    Source(<<"A", " ", "implements", " ", "B", ";", " ", "A", " ", "includes", 
             " ", "B", ";">>)

\* [A=B, X=(a,b), B(A a)] interface A {};
SrcAnnotated ==
    Source(<<"[", "A", "=", "B", ",", " ", "X", "=", "(", "a", ",", "b", ")", ",", 
             " ", "B", "(", "A", " ", "a", ")", "]", " ", "interface", " ", "A", 
             " ", "{", "}", ";">>)

\* // a\ninterface A {};
SrcCommented ==
    Source(<<"/", "/", " ", "a", "\n", "interface", " ", "A", " ", "{", "}", ";">>)

\* typedef A<
SrcOpenTri ==
    Source(<<"typedef", " ", "A", "<">>)

\* typedef A<B;
SrcOpenTri2 ==
    Source(<<"typedef", " ", "A", "<", "B", ";">>)

\* [A] foo { }; interface B {};
SrcUnknown ==
    Source(<<"[", "A", "]", " ", "foo", " ", "{", " ", "}", ";", " ", "interface", 
             " ", "B", " ", "{", "}", ";">>)

\* [A] foo @
SrcUnknownError ==
    Source(<<"[", "A", "]", " ", "foo", " ", "@">>)

\* interface A { @ };
SrcMemberError ==
    Source(<<"interface", " ", "A", " ", "{", " ", "@", " ", "}", ";">>)

\* interface A {}; @
SrcRootError ==
    Source(<<"interface", " ", "A", " ", "{", "}", ";", " ", "@">>)

\* interface A {}; } interface B {};
SrcRootBrace ==
    Source(<<"interface", " ", "A", " ", "{", "}", ";", " ", "}", " ", 
             "interface", " ", "B", " ", "{", "}", ";">>)

\* interface A {}; foo interface B {};
SrcRootName ==
    Source(<<"interface", " ", "A", " ", "{", "}", ";", " ", "foo", " ", 
             "interface", " ", "B", " ", "{", "}", ";">>)

\* enum E { "a
SrcOpenString ==
    Source(<<"enum", " ", "E", " ", "{", " ", "\"", "a">>)

\* interface A {\n// a\n// b\nA? f(// c\nA a); };
SrcCommentedMember ==
    Source(<<"interface", " ", "A", " ", "{", "\n", "/", "/", " ", "a", "\n", "/", "/",
             " ", "b", "\n", "A", "?", " ", "f", "(", "/", "/", " ", "c", "\n", "A", " ",
             "a", ")", ";", " ", "}", ";">>)

\* A space and a comment, no declaration.
SrcBlank ==
    Source(<<" ", "/", "/", "a">>)

\* "partial", then StaleLimit spaces, then "interface A {};"
SrcStalePartial ==
    Source(<<"partial">>) \o Blank(StaleLimit) \o Source(<<"interface", " ", "A", " ", "{", "}", ";">>)

\* "interface A { serializer", then StaleLimit spaces, then "; };"
SrcStaleSerializer ==
    Source(<<"interface", " ", "A", " ", "{", " ", "serializer">>) \o Blank(StaleLimit)
        \o Source(<<";", " ", "}", ";">>)

ParseSamples ==
    {SrcInterface, SrcPartial, SrcMixin, SrcDictionary, SrcTypedef, SrcEnum,
     SrcCallback, SrcImplements, SrcAnnotated, SrcCommented, SrcOpenTri, SrcOpenTri2,
     SrcUnknown, SrcUnknownError, SrcMemberError, SrcRootError, SrcRootBrace, SrcRootName, SrcOpenString,
     SrcCommentedMember, SrcBlank, SrcStalePartial, SrcStaleSerializer}

ParseWords == {"typedef", "A", "<", ">", ";", "[", "{", "}", "@", "partial", "interface", "?"}

ParseSources ==
    {Source(Spaced(ws)) : ws \in SeqsUpTo(ParseWords, MaxWords)} \cup ParseSamples

\* Parse(input), up to its call of consumeTopLevel.
Init ==
    /\ parser \in {buildParser(NewScanner(src)) : src \in ParseSources}
    /\ heap = <<>>
    /\ stack = <<Frame("consumeTopLevel", <<>>)>>
    /\ ret = [node |-> 0, list |-> <<>>]
    /\ lexer = Idle /\ plex = Idle

Next ==
    \/ consumeTopLevel
    \/ consumeDeclaration
    \/ consumeInterfaceOrMixin
    \/ consumeInterface
    \/ consumeMixin
    \/ consumeDictionary
    \/ consumeTypedef
    \/ consumeEnum
    \/ consumeMember
    \/ tryConsumeAnnotations
    \/ consumeAnnotationPart
    \/ consumeType
    \/ consumeParameter
    \/ consumeParameters

Spec == Init /\ [][Next]_vars

\* Spec, with the goroutine that called Parse running on: a rule that can
\* take a step takes it.
SpecFair == Spec /\ WF_vars(Next)

----------------------------------------------------------------------------
(* SpecRules: Parse(input) over source texts that exercise single rules:    *)
(* a declaration written around every short run of the words of one rule.   *)

\* Longest enumerated run of words of a type name.
MaxNameWords == 3

NameWords == {"unsigned", "long", "short", "unrestricted", "double", "A"}

\* typedef ws T;
SrcNamed(ws) == Source(<<"typedef", " ">> \o Spaced(ws) \o <<" ", "T", ";">>)

\* Most "?" written after one type.
MaxMarks == 2

\* n times "?".
Marks(n) == [i \in 1..n |-> "?"]

\* A type of each branch of consumeType.
TypeBases ==
    {<<"any">>, <<"A">>, <<"unsigned", " ", "long">>, <<"sequence", "<", "A", ">">>,
     <<"record", "<", "A", ",", "B", ">">>, <<"(", "A", " ", "or", " ", "B", ")">>,
     <<"A", "<", "B", ">">>}

\* typedef type T;
SrcType(type) == Source(<<"typedef", " ">> \o type \o <<" ", "T", ";">>)

\* The types written with base and up to MaxMarks "?": base alone, base as the
\* element of a sequence, of a parametrized type and of a union.
NullableTypes ==
    UNION {{base \o Marks(i),
            <<"sequence", "<">> \o base \o Marks(i) \o <<">">> \o Marks(o),
            <<"A", "<">> \o base \o Marks(i) \o <<",", "B">> \o Marks(o) \o <<">">>,
            <<"(">> \o base \o Marks(i) \o <<" ", "or", " ", "B">> \o Marks(o) \o <<")">> \o Marks(i)} :
           <<base, i, o>> \in TypeBases \X (0..MaxMarks) \X (0..MaxMarks)}

\* Longest enumerated run of words of a member.
MaxMemberWords == 4

MemberWords == {"attribute", "const", "A", "(", ")"}

\* head I { ws };
SrcMember(head, ws) ==
    Source(<<head, " ", "I", " ", "{", " ">> \o Spaced(ws) \o <<";", " ", "}", ";">>)

\* Longest enumerated run of words of an annotation list.
MaxAnnotationWords == 4

AnnotationWords == {"A", "=", "(", ")", ","}

\* [ws] interface I {};
SrcAnnotation(ws) ==
    Source(<<"[">> \o Spaced(ws) \o <<"]", " ", "interface", " ", "I", " ", "{", "}", ";">>)

\* Longest enumerated run of words of an enum body.
MaxEnumWords == 4

EnumWords == {"a", "\"b\"", ",", ";"}

\* enum E { ws };
SrcEnumBody(ws) ==
    Source(<<"enum", " ", "E", " ", "{">> \o Spaced(ws) \o <<"}", ";">>)

MaxBodyWords == 3
BodyWords == {"serializer", "jsonifier", "stringifier", ";", "A"}
SrcBody(head, ws) ==
    Source(head \o <<" ", "I", " ", "{", " ">> \o Spaced(ws) \o <<" ", "}", ";">>)

MaxHeadWords == 3
HeadWords == {"partial", "interface", "mixin", "dictionary", "callback"}
SrcHead(ws) == Source(Spaced(ws) \o <<" ", "I", " ", "{", "}", ";">>)

\* tests/callback_ident.webidl.
SrcCallbackIdent ==
    << "[", "C", "o", "n", "s", "t", "r", "u", "c", "t", "o", "r", "(", "M", "u", "t", "a", "t", "i", "o", "n", "C", "a", "l", "l", "b", "a", "c", "k", " ", "c", "a", "l", "l", "b", "a", "c", "k", ")", ",", "\n",
       " ", "E", "x", "p", "o", "s", "e", "d", "=", "W", "i", "n", "d", "o", "w", "]", "\n",
       "i", "n", "t", "e", "r", "f", "a", "c", "e", " ", "M", "u", "t", "a", "t", "i", "o", "n", "O", "b", "s", "e", "r", "v", "e", "r", " ", "{", "\n",
       " ", " ", "v", "o", "i", "d", " ", "o", "b", "s", "e", "r", "v", "e", "(", "N", "o", "d", "e", " ", "t", "a", "r", "g", "e", "t", ",", " ", "o", "p", "t", "i", "o", "n", "a", "l", " ", "M", "u", "t", "a", "t", "i", "o", "n", "O", "b", "s", "e", "r", "v", "e", "r", "I", "n", "i", "t", " ", "o", "p", "t", "i", "o", "n", "s", ")", ";", "\n",
       " ", " ", "v", "o", "i", "d", " ", "d", "i", "s", "c", "o", "n", "n", "e", "c", "t", "(", ")", ";", "\n",
       " ", " ", "s", "e", "q", "u", "e", "n", "c", "e", "<", "M", "u", "t", "a", "t", "i", "o", "n", "R", "e", "c", "o", "r", "d", ">", " ", "t", "a", "k", "e", "R", "e", "c", "o", "r", "d", "s", "(", ")", ";", "\n",
       "}", ";", "\n" >>

DeclarationKeywords == {"interface", "partial", "callback", "dictionary", "enum", "typedef"}

\* [A(B name)] interface I { A f(B name, B a); };
SrcNamedParameter(name) ==
    Source(<<"[", "A", "(", "B", " ", name, ")", "]", " ", "interface", " ", "I", " ", "{", " ",
             "A", " ", "f", "(", "B", " ", name, ",", " ", "B", " ", "a", ")", ";", " ", "}", ";">>)

RuleSources ==
    {SrcNamed(ws) : ws \in SeqsUpTo(NameWords, MaxNameWords)}
        \cup {SrcType(type) : type \in NullableTypes}
        \cup {SrcMember(head, ws) : head \in {"interface", "dictionary"},
                                    ws \in SeqsUpTo(MemberWords, MaxMemberWords)}
        \cup {SrcAnnotation(ws) : ws \in SeqsUpTo(AnnotationWords, MaxAnnotationWords)}
        \cup {SrcEnumBody(ws) : ws \in SeqsUpTo(EnumWords, MaxEnumWords)}
        \cup {SrcHead(ws) : ws \in SeqsUpTo(HeadWords, MaxHeadWords)}
        \cup {SrcNamedParameter(name) : name \in DeclarationKeywords} \cup {SrcCallbackIdent}
        \cup {SrcBody(head, ws) : head \in {<<"interface">>, <<"interface", " ", "mixin">>},
                                  ws \in SeqsUpTo(BodyWords, MaxBodyWords)}
        \cup ParseSamples

InitRules ==
    /\ parser \in {buildParser(NewScanner(src)) : src \in RuleSources}
    /\ heap = <<>>
    /\ stack = <<Frame("consumeTopLevel", <<>>)>>
    /\ ret = [node |-> 0, list |-> <<>>]
    /\ lexer = Idle /\ plex = Idle

SpecRules == InitRules /\ [][Next]_vars

----------------------------------------------------------------------------
(* performLeftRecursiveParsing.  No rule of the grammar calls it: it is     *)
(* run here under an open File node with the parsers a caller would hand    *)
(* it.  The operand parser reads one identifier as a Literal and fails,     *)
(* consuming nothing, on any other token; the builder reads the right       *)
(* operand with the same parser and makes a Binary node of the left node,   *)
(* the operator and the right node; the operators are `,` and `:`; the      *)
(* gate is nil or accepts commas only.                                      *)

MaxExprWords == 5
ExprWords == {"a", "b", ",", ":"}
SrcExpr(ws) == Source(Spaced(ws))
operatorTokens == {tokenTypeComma, tokenTypeColon}
Gates == {"nil", "comma"}

\* subTryExprFn.
subTryExprFn(m0) ==
    Bind(m0, LAMBDA m :
    IF ~isToken(m, {tokenTypeIdentifier}) THEN [m |-> m, id |-> 0, ok |-> FALSE]
    ELSE Bind(alloc(m, New("Literal", [Value |-> m.p.currentToken.value])), LAMBDA a :
             [m |-> finishNode(consumeToken(node(a.m, a.id))), id |-> a.id, ok |-> TRUE]))

\* rightNodeBuilder(leftNode, operatorToken).
rightNodeBuilder(m, leftNode, operatorToken) ==
    Bind(subTryExprFn(m), LAMBDA right :
        IF ~right.ok THEN [m |-> right.m, id |-> 0, ok |-> FALSE]
        ELSE Bind(alloc(right.m, [Left |-> leftNode, Op |-> operatorToken.value,
                                  Right |-> right.id] @@ Base("Binary")), LAMBDA a :
                 [m |-> a.m, id |-> a.id, ok |-> TRUE]))

\* rightTokenTester(currentToken), of the gate that is not nil.
rightTokenTester(gate, currentToken) == currentToken.kind = tokenTypeComma

\* return node, ok
ReturnOk(m, v, ok) == [m |-> m, stack |-> Rest, ret |-> [node |-> v, list |-> <<>>, ok |-> ok]]

\* Mutant of leftCombine: every operator is combined with the first operand.
leftCombineFirst(m, f, operatorToken) == rightNodeBuilder(m, f.leftNode, operatorToken)

\* exprNode, ok := rightNodeBuilder(currentLeftNode, operatorToken.lexeme)
leftCombine(m, f, operatorToken) == rightNodeBuilder(m, f.currentLeftNode, operatorToken)

\* One turn of the loop.
leftLoop(m0, f) ==
    Bind(m0, LAMBDA m :
    IF ~isToken(m, operatorTokens) THEN ReturnOk(m, f.currentLeftNode, TRUE)
    ELSE IF f.gate # "nil" /\ ~rightTokenTester(f.gate, m.p.currentToken)
    THEN ReturnOk(m, f.currentLeftNode, TRUE)
    ELSE Bind(tryConsume(m, operatorTokens), LAMBDA operator :
             IF ~operator.ok THEN ReturnOk(operator.m, f.currentLeftNode, TRUE)
             ELSE Bind(leftCombine(operator.m, f, operator.token), LAMBDA expr :
                 IF ~expr.ok
                 THEN ReturnOk(emitError(expr.m, "Expected right hand expression, found token"),
                               f.currentLeftNode, TRUE)
                 ELSE Goto(decorateEndRune(
                               decorateStartRuneAndComments(expr.m, expr.id, f.currentLeftToken),
                               expr.id, expr.m.p.previousToken),
                           With(f, [currentLeftNode |-> expr.id,
                                    currentLeftToken |-> operator.token])))))

\* Up to the loop: the first operand.
leftStart(m0, f) ==
    Bind(m0, LAMBDA m :
    Bind(subTryExprFn(m), LAMBDA left :
        IF ~left.ok THEN ReturnOk(left.m, 0, FALSE)
        ELSE IF ~isToken(left.m, operatorTokens) THEN ReturnOk(left.m, left.id, TRUE)
        ELSE Goto(left.m, With(f, [pc |-> "loop", leftNode |-> left.id,
                                   currentLeftNode |-> left.id,
                                   currentLeftToken |-> m.p.currentToken]))))

performLeftRecursiveParsing ==
    /\ In("performLeftRecursiveParsing")
    /\ Step(IF Top.pc = "start" THEN leftStart(M, Top) ELSE leftLoop(M, Top))

\* The parser at the first token of src, a File open for the error nodes.
LeftMachine(src) ==
    Bind(alloc([p |-> buildParser(NewScanner(src)), h |-> <<>>], New("File", <<>>)), LAMBDA a :
        consumeToken(node(a.m, a.id)))

InitLeft ==
    /\ \E src \in {SrcExpr(ws) : ws \in SeqsUpTo(ExprWords, MaxExprWords)} :
           /\ parser = LeftMachine(src).p
           /\ heap = LeftMachine(src).h
    /\ \E gate \in Gates :
           stack = <<Frame("performLeftRecursiveParsing",
                           [gate |-> gate, leftNode |-> 0, currentLeftNode |-> 0,
                            currentLeftToken |-> commentedLexeme(Lexeme(tokenTypeError, -1, ""), <<>>)])>>
    /\ ret = [node |-> 0, list |-> <<>>, ok |-> FALSE]
    /\ lexer = Idle /\ plex = Idle

SpecLeft == InitLeft /\ [][performLeftRecursiveParsing]_vars

----------------------------------------------------------------------------
(* Properties of Parse.                                                     *)

\* The File that consumeTopLevel builds is the first node made.
RootOf(h) == h[1]

\* The messages of the errors attached to node n of h.
ErrorMessages(h, n) == [i \in 1..Len(n.Errors) |-> NodeAt(h, n.Errors[i]).Message]

\* The number of places of the sequence msgs that hold message.
Count(msgs, message) == Cardinality({i \in 1..Len(msgs) : msgs[i] = message})

\* C1: Parse terminates on every source text: sooner or later the parser is
\* no longer running, every loop of the grammar consuming a token or ending.
C1_ParseTerminates == <>(parser.status # "running")

\* C2: no source text makes Parse panic.
C2_NoPanic == parser.status # "panic"

\* C3: once the scanner has yielded an error token, the parse stops there: it
\* ends with the File returned and an ErrorNode in the File's own errors, and
\* the scanner is never asked for the token after the error token.
C3_ErrorTokenEndsParse ==
    (parser.currentToken.kind = tokenTypeError /\ parser.status # "running")
        => /\ parser.status = "returned"
           /\ RootOf(heap).Errors # <<>>

\* The token current at the head of the top-level loop starts nothing known at
\* the root: it is not the end of the input, not "[", not a word that begins a
\* declaration and, when it is an identifier, the token after it is there and
\* is neither "implements" nor "includes".
UnexpectedAtRoot(m) ==
    /\ ~isToken(m, {tokenTypeEOF, tokenTypeLeftBracket})
    /\ ~isIdentifierIn(m, {"interface", "partial", "callback", "dictionary", "enum", "typedef"})
    /\ isToken(m, {tokenTypeIdentifier})
          => /\ Running(consumeToken(m))
             /\ ~isIdentifierIn(consumeToken(m), {"implements", "includes"})

\* The step is the top-level loop's, at a token that starts nothing known.
RootUnexpectedStep ==
    /\ In("consumeTopLevel")
    /\ Top.pc = "loop"
    /\ UnexpectedAtRoot(M)

\* C4: at a token that starts nothing known at the root, the top-level loop
\* appends one "Unexpected token at root level" ErrorNode to the File and
\* nothing else, ends, and the File is returned with the declarations read
\* before that token.
C4_RootUnexpected ==
    [][RootUnexpectedStep =>
          /\ parser'.status = "returned"
          /\ stack' = <<>>
          /\ ret'.node = 1
          /\ RootOf(heap').Declarations = RootOf(heap).Declarations
          /\ Len(RootOf(heap').Errors) = Len(RootOf(heap).Errors) + 1
          /\ SubSeq(RootOf(heap').Errors, 1, Len(RootOf(heap).Errors)) = RootOf(heap).Errors
          /\ Count(ErrorMessages(heap', RootOf(heap')), "Unexpected token at root level") = 1
          /\ NodeAt(heap', RootOf(heap').Errors[Len(RootOf(heap').Errors)]).kind = "ErrorNode"]_vars

\* C4, its case: Parse has returned a File with a declaration read before the
\* unexpected token, which is still current, and the error for it.
C4_Witness ==
    /\ parser.status = "returned"
    /\ ~isToken(M, {tokenTypeEOF})
    /\ RootOf(heap).Declarations # <<>>
    /\ Count(ErrorMessages(heap, RootOf(heap)), "Unexpected token at root level") = 1

\* The step is consumeDeclaration's on its recovery path: it makes the error
\* "Expected interface or dictionary".
RecoveryStep ==
    /\ In("consumeDeclaration")
    /\ \E i \in (Len(heap) + 1)..Len(heap') :
          /\ heap'[i].kind = "ErrorNode"
          /\ heap'[i].Message = "Expected interface or dictionary"

\* C5: the recovery of consumeDeclaration passes over the tokens up to and
\* with the first "}" and the ";" after it: it ends behind a ";" or at the
\* end of the input, where the next declaration may begin.
C5_RecoveryResynchronizes ==
    [][(RecoveryStep /\ parser'.status = "running") =>
          \/ parser'.previousToken.kind = tokenTypeSemicolon
          \/ parser'.currentToken.kind = tokenTypeEOF]_vars

\* The kinds of node that carry a type name.
NamedTypes == {"TypeName", "ParametrizedType"}

\* The values of the identifier tokens of the source text.
SourceWords ==
    {parser.lex.lex.toks[i].value :
        i \in {k \in 1..Len(parser.lex.lex.toks) :
                  parser.lex.lex.toks[k].kind = tokenTypeIdentifier}}

Ahead(p) ==
    <<p.currentToken>> \o
    SelectSeq(p.lex.readTokens \o SubSeq(p.lex.lex.toks, p.lex.lex.taken + 1, Len(p.lex.lex.toks)),
              LAMBDA t : t.kind \notin ignoredTokenTypes)

\* Token k of ts is the word w.
IsWord(ts, k, w) == k <= Len(ts) /\ ts[k].kind = tokenTypeIdentifier /\ ts[k].value = w

\* The type name that the tokens ts begin with: the first word; a word that
\* makes it one of the two-word names; and "long" after "unsigned long".
LongestName(ts) ==
    IF ~(1 <= Len(ts) /\ ts[1].kind = tokenTypeIdentifier) THEN ""
    ELSE IF IsWord(ts, 1, "unsigned") /\ IsWord(ts, 2, "long") /\ IsWord(ts, 3, "long")
         THEN "unsigned long long"
    ELSE IF \/ IsWord(ts, 1, "unsigned") /\ (IsWord(ts, 2, "short") \/ IsWord(ts, 2, "long"))
            \/ IsWord(ts, 1, "long") /\ IsWord(ts, 2, "long")
            \/ IsWord(ts, 1, "unrestricted") /\ (IsWord(ts, 2, "float") \/ IsWord(ts, 2, "double"))
         THEN ts[1].value \o " " \o ts[2].value
    ELSE ts[1].value

Questions(ts) == Len(SelectSeq(ts, LAMBDA t : t.kind = tokenTypeQuestionMark))

\* The NullableType nodes made by the step.
NewNullables == {i \in (Len(heap) + 1)..Len(heap') : heap'[i].kind = "NullableType"}

\* C13: the Type of a NullableType is never a NullableType, and a step of
\* consumeType consumes at most one "?", the one of the NullableType it makes:
\* after "T?" a second "?" stays the current token.
C13_NullableNeverNests ==
    [][/\ \A i \in 1..Len(heap') :
             heap'[i].kind = "NullableType" =>
                 NodeAt(heap', heap'[i].Type).kind # "NullableType"
       /\ (In("consumeType") /\ parser'.status = "running" /\ ~parser'.truncated) =>
             /\ Cardinality(NewNullables) <= 1
             /\ Questions(Ahead(parser)) - Questions(Ahead(parser')) = Cardinality(NewNullables)
             /\ \A i \in NewNullables :
                   /\ heap'[i].Type \in 1..Len(heap')
                   /\ parser'.previousToken.kind = tokenTypeQuestionMark
                   /\ ret'.node = i]_vars

\* consumeType has returned a NullableType at "T??": the second "?" is the
\* current token.
C13_Witness ==
    /\ parser.status = "running"
    /\ ret.node # 0 /\ NodeAt(heap, ret.node).kind = "NullableType"
    /\ parser.previousToken.kind = tokenTypeQuestionMark
    /\ parser.currentToken.kind = tokenTypeQuestionMark

\* C14: a Member that is an attribute or a constant has no parameters, and
\* every member of a Dictionary is an attribute without parameters.
C14_MemberParameters ==
    /\ \A i \in 1..Len(heap) :
          heap[i].kind = "Member" =>
              ((heap[i].Attribute \/ heap[i].Const) => heap[i].Parameters = <<>>)
    /\ \A i \in 1..Len(heap) :
          heap[i].kind = "Dictionary" =>
              \A k \in 1..Len(heap[i].Members) :
                  heap[i].Members[k] # 0 =>
                      /\ heap[heap[i].Members[k]].kind = "Member"
                      /\ heap[heap[i].Members[k]].Attribute
                      /\ heap[heap[i].Members[k]].Parameters = <<>>

\* A member of a dictionary that has its type and name and "(" after them: the
\* parameters were not read, and the member is in the dictionary.
C14_Witness ==
    \E i, j \in 1..Len(heap) :
        /\ heap[i].kind = "Dictionary" /\ heap[i].Members = <<j>>
        /\ heap[j].Attribute /\ heap[j].Name # "" /\ heap[j].Type # 0
        /\ heap[j].Parameters = <<>>
        /\ parser.currentToken.kind = tokenTypeLeftParen

\* The payloads that the Annotation n carries.
Payloads(n) ==
    {name \in {"Value", "Values", "Parameters"} :
        \/ name = "Value" /\ n.Value # ""
        \/ name = "Values" /\ n.Values # <<>>
        \/ name = "Parameters" /\ n.Parameters # <<>>}

\* The token after the annotation's name, which is the current token when the
\* name is missing.
AfterName(ts) == IF ts[1].kind = tokenTypeIdentifier /\ Len(ts) >= 2 THEN ts[2] ELSE ts[1]

\* C15: an Annotation carries at most one of Value, Values and Parameters, and
\* the token after its name chooses which: after "=" consumeAnnotationPart
\* returns with a value or a list of values and no parameters; at "(" it goes
\* on to the parameters with no value; otherwise it returns with no payload.
C15_OnePayload ==
    [][/\ \A i \in 1..Len(heap') :
             heap'[i].kind = "Annotation" => Cardinality(Payloads(heap'[i])) <= 1
       /\ (In("consumeAnnotationPart") /\ Top.pc = "start" /\ parser'.status = "running"
                                       /\ ~parser'.truncated) =>
             \E i \in (Len(heap) + 1)..Len(heap') :
                 /\ heap'[i].kind = "Annotation"
                 /\ CASE AfterName(Ahead(parser)).kind = tokenTypeEquals ->
                            /\ stack' = Rest /\ ret'.node = i
                            /\ Payloads(heap'[i]) \subseteq {"Value", "Values"}
                       [] AfterName(Ahead(parser)).kind = tokenTypeLeftParen ->
                            /\ Len(stack') = Len(stack) + 1
                            /\ stack'[Len(stack')].fn = "consumeParameters"
                            /\ Payloads(heap'[i]) = {}
                       [] OTHER ->
                            /\ stack' = Rest /\ ret'.node = i
                            /\ Payloads(heap'[i]) = {}]_vars

\* An annotation with a value has been read and "(" comes after the value.
C15_Witness ==
    /\ parser.status = "running"
    /\ ret.node # 0 /\ NodeAt(heap, ret.node).kind = "Annotation"
    /\ Payloads(heap[ret.node]) = {"Value"}
    /\ parser.currentToken.kind = tokenTypeLeftParen

\* The kinds of token that a literal is read from.
LiteralTokens == {tokenTypeIdentifier, tokenTypeString}

\* The Enum made by the step of consumeEnum.
NewEnum == CHOOSE i \in (Len(heap) + 1)..Len(heap') : heap'[i].kind = "Enum"

\* The error nodes of the Enum e of h: its own and those of its values.
EnumErrors(h, e) ==
    {h[e].Errors[k] : k \in 1..Len(h[e].Errors)}
        \cup UNION {{NodeAt(h, h[e].Values[v]).Errors[k] :
                        k \in 1..Len(NodeAt(h, h[e].Values[v]).Errors)} :
                    v \in 1..Len(h[e].Values)}

\* The tokens ts are "enum", a name, "{", count literals with a comma between
\* each two and, when trailing, one more comma after the last, "}" and ";".
EnumOf(ts, count, trailing) ==
    LET close == 2 + 2 * count + (IF trailing THEN 1 ELSE 0) + 1
    IN  /\ Len(ts) > close
        /\ IsWord(ts, 1, "enum") /\ ts[2].kind = tokenTypeIdentifier
        /\ ts[3].kind = tokenTypeLeftBrace
        /\ \A k \in 1..count : ts[2 + 2 * k].kind \in LiteralTokens
        /\ \A k \in 1..(count - 1) : ts[3 + 2 * k].kind = tokenTypeComma
        /\ trailing => ts[close - 1].kind = tokenTypeComma
        /\ ts[close].kind = tokenTypeRightBrace
        /\ ts[close + 1].kind = tokenTypeSemicolon

C17_EnumHasValues ==
    parser.status = "returned" =>
        \A k \in 1..Len(RootOf(heap).Declarations) :
            LET e == NodeAt(heap, RootOf(heap).Declarations[k])
            IN  (e.kind = "Enum" /\ e.Annotations = <<>>
                    /\ EnumErrors(heap, RootOf(heap).Declarations[k]) = {}) =>
                    e.Values # <<>>

\* The nodes that node n of the tree refers to, its error nodes apart.
Children(n) ==
    LET list(field) == IF field \in DOMAIN n THEN {n[field][k] : k \in 1..Len(n[field])} ELSE {}
        one(field) == IF field \in DOMAIN n THEN {n[field]} ELSE {}
    IN  (list("Declarations") \cup list("Members") \cup list("CustomOps")
            \cup list("Annotations") \cup list("Parameters") \cup list("Elems")
            \cup list("Types") \cup (IF n.kind = "Enum" THEN list("Values") ELSE {})
            \cup one("Type") \cup one("Elem") \cup one("Key") \cup one("Init")
            \cup one("Return") \cup one("Iterable")) \ {0}

RECURSIVE Closure(_, _, _)
Closure(h, seen, frontier) ==
    IF frontier = {} THEN seen
    ELSE LET further == UNION {Children(h[i]) : i \in frontier} \ seen
         IN  Closure(h, seen \cup further, further)

\* The nodes of the tree under the File of h.
Tree(h) == Closure(h, {1}, {1})

\* The length of the source text: the position of the end-of-input token.
SourceLen == parser.lex.lex.toks[Len(parser.lex.lex.toks)].position

\* Parse has returned the tree of a source text scanned to its end.
ReturnedTree ==
    /\ parser.status = "returned"
    /\ parser.lex.lex.toks[Len(parser.lex.lex.toks)].kind = tokenTypeEOF

Significant == SelectSeq(parser.lex.lex.toks, LAMBDA t : t.kind \notin ignoredTokenTypes)

\* The offset of the last rune of the last significant token that begins
\* before offset start; -1 when there is none.
EndBefore(start) ==
    LET before == {k \in 1..Len(Significant) : Significant[k].position < start}
    IN  IF before = {} THEN -1
        ELSE LET last == CHOOSE x \in before : \A y \in before : y <= x
             IN  Significant[last].position + Len(Significant[last].value) - 1

C19_CommentsOnOneNode ==
    ReturnedTree =>
        \A i, j \in Tree(heap) :
            (i # j /\ heap[i].Comments # <<>> /\ heap[j].Comments # <<>>) =>
                heap[i].Start # heap[j].Start

\* The values of the comment tokens scanned between the significant token
\* that begins at offset start and the significant token before it, in the
\* order of the source; none when no significant token begins at start.
CommentsBefore(start) ==
    LET toks == parser.lex.lex.toks
        at == {k \in 1..Len(toks) : toks[k].position = start
                                      /\ toks[k].kind \notin ignoredTokenTypes}
    IN  IF at = {} THEN <<>>
        ELSE LET t == CHOOSE k \in at : \A x \in at : k <= x
                 since == {k \in 1..(t - 1) : toks[k].kind \notin ignoredTokenTypes}
                 from == IF since = {} THEN 0
                         ELSE CHOOSE k \in since : \A x \in since : x <= k
                 between == SelectSeq(SubSeq(toks, from + 1, t - 1),
                                      LAMBDA c : c.kind = tokenTypeComment)
             IN  [k \in 1..Len(between) |-> between[k].value]

\* C19, amended: the comments scanned between the previous significant token
\* and a significant token t go with t, in source order, and every node opened
\* while t is current carries them: the comments of a node of the tree are the
\* comments before the token it begins at (a member or parameter and its type
\* that begin at the same token, a NullableType and the type it wraps, carry
\* the same comments); a node that begins at a token with no comments before
\* it, and the File, have none.
C19_CommentsOfToken ==
    ReturnedTree =>
        \A i \in Tree(heap) :
            heap[i].Comments = IF i = 1 THEN <<>> ELSE CommentsBefore(heap[i].Start)

\* The tree of the commented member: the member and its type both carry the
\* two comments before the token they begin at.
C19_Witness ==
    /\ ReturnedTree
    /\ \E i, j \in Tree(heap) :
          /\ heap[i].kind = "Member" /\ heap[i].Type = j
          /\ Len(heap[i].Comments) = 2
          /\ heap[j].Comments = heap[i].Comments
          /\ heap[j].Start = heap[i].Start

----------------------------------------------------------------------------
(* Left-associative chains.                                                 *)

\* The operands and the operators as the source has them.
Operand(t) == t.kind = tokenTypeIdentifier
Accepted(gate, t) ==
    /\ t.kind \in {tokenTypeComma, tokenTypeColon}
    /\ gate = "nil" \/ t.kind = tokenTypeComma

\* The number of operands of the chain that starts ts, n of them being read:
\* the chain goes on while an accepted operator and an operand follow.
RECURSIVE ChainLen(_, _, _)
ChainLen(ts, gate, n) ==
    IF Accepted(gate, ts[2 * n]) /\ Operand(ts[2 * n + 1]) THEN ChainLen(ts, gate, n + 1) ELSE n

\* builder(...builder(builder(x1, op), op)..., op) over the first n operands.
RECURSIVE Chain(_, _)
Chain(ts, n) ==
    IF n = 1 THEN <<ts[1].value>>
    ELSE <<Chain(ts, n - 1), ts[2 * n - 2].value, <<ts[2 * n - 1].value>>>>

\* The node id of h as a term: a Binary node by its operands and operator.
RECURSIVE Term(_, _)
Term(h, id) ==
    IF h[id].kind = "Binary" THEN <<Term(h, h[id].Left), h[id].Op, Term(h, h[id].Right)>>
    ELSE <<h[id].Value>>

ErrorNodes(h) == {i \in 1..Len(h) : h[i].kind = "ErrorNode"}

\* C20: performLeftRecursiveParsing builds left-associative chains.  When it
\* returns, with ts the tokens of the source that are not ignored: if ts does
\* not start with an operand, it returns (nil, false) and has consumed
\* nothing and made no node; otherwise it returns ok with the node
\* builder(...builder(builder(x1, op), op)..., op) over the longest run
\* x1 op x2 ... op xn of operands and operators the gate accepts, each
\* combined node being the left operand of the next, which for n = 1 is the
\* operand as the operand parser made it; and there is one error node, on the
\* open node, exactly when an accepted operator follows xn without an
\* operand, and none otherwise.
C20_LeftAssociative ==
    [][stack' = <<>> =>
        LET ts == Significant
            gate == Top.gate
            n == ChainLen(ts, gate, 1)
            fails == Accepted(gate, ts[2 * n]) /\ ~Operand(ts[2 * n + 1])
            result == ret'.node
        IN  IF ~Operand(ts[1])
            THEN /\ ret' = [node |-> 0, list |-> <<>>, ok |-> FALSE]
                 /\ parser' = parser /\ heap' = heap
                 /\ Len(Ahead(parser')) = Len(ts)
            ELSE /\ ret'.ok /\ result # 0
                 /\ Term(heap', result) = Chain(ts, n)
                 /\ Cardinality({i \in 1..Len(heap') : heap'[i].kind = "Binary"}) = n - 1
                 /\ Cardinality({i \in 1..Len(heap') : heap'[i].kind = "Literal"}) = n
                 /\ n = 1 => heap'[result] =
                        [New("Literal", [Value |-> ts[1].value])
                             EXCEPT !.Start = ts[1].position,
                                    !.End = ts[1].position + Len(ts[1].value) - 1]
                 /\ Len(Ahead(parser')) = Len(ts) - (2 * n - 1) - (IF fails THEN 1 ELSE 0)
                 /\ Cardinality(ErrorNodes(heap')) = (IF fails THEN 1 ELSE 0)
                 /\ Len(heap'[1].Errors) = (IF fails THEN 1 ELSE 0)
                 /\ \A e \in ErrorNodes(heap') :
                        /\ heap'[1].Errors = <<e>>
                        /\ heap'[e].Message = "Expected right hand expression, found token"
    ]_vars

\* A chain of three operands under two different operators has been
\* combined: the node returned has a combined node as its left operand.
C20_Witness ==
    /\ stack = <<>> /\ ret.ok
    /\ heap[ret.node].kind = "Binary"
    /\ heap[heap[ret.node].Left].kind = "Binary"
    /\ heap[heap[ret.node].Left].Op # heap[ret.node].Op
    /\ heap[heap[ret.node].Right].Value # heap[heap[heap[ret.node].Left].Right].Value

----------------------------------------------------------------------------
(* The spans of the combined nodes.                                         *)

\* The leftmost operand under the node id of h.
RECURSIVE Leftmost(_, _)
Leftmost(h, id) == IF h[id].kind = "Binary" THEN Leftmost(h, h[id].Left) ELSE id

\* C21: every combined node that performLeftRecursiveParsing builds, the
\* second and later ones of a chain included, has the span of what it covers:
\* it starts where its leftmost operand starts and ends where its right
\* operand ends.
C21_OverallSpan ==
    \A i \in 1..Len(heap) :
        heap[i].kind = "Binary" =>
            /\ heap[i].Start = heap[Leftmost(heap, i)].Start
            /\ heap[i].End = heap[heap[i].Right].End

----------------------------------------------------------------------------
(* Custom operations.                                                       *)

CustomOpNames == {"serializer", "jsonifier", "stringifier"}

IsCustomOpName(t) == t.kind = tokenTypeIdentifier /\ t.value \in CustomOpNames

\* The index in ts of the `{` that opens the body of the declaration d; 0
\* without one.
BodyBrace(ts, d) ==
    LET braces == {i \in 1..Len(ts) : ts[i].kind = tokenTypeLeftBrace /\ ts[i].position >= d.Start}
    IN  IF braces = {} THEN 0 ELSE CHOOSE i \in braces : \A j \in braces : i <= j

\* Token i of ts is where the body opened at token b looks for a custom
\* operation: right after `{`, or right after a custom operation that is there.
RECURSIVE OpStart(_, _, _)
OpStart(ts, b, i) ==
    \/ i = b + 1
    \/ /\ i > b + 2
       /\ ts[i - 1].kind = tokenTypeSemicolon
       /\ IsCustomOpName(ts[i - 2])
       /\ OpStart(ts, b, i - 2)

\* The custom operations and members of the bodies of kinds, as C22 has them.
CustomOpsIn(kinds) ==
    ReturnedTree =>
        \A k \in 1..Len(heap[1].Declarations) :
            LET d == heap[heap[1].Declarations[k]]
                ts == Significant
                b == BodyBrace(ts, d)
                ids(list) == {list[j] : j \in 1..Len(list)}
            IN  (d.kind \in kinds /\ b # 0) =>
                    \A i \in (b + 1)..(Len(ts) - 1) :
                        (IsCustomOpName(ts[i]) /\ OpStart(ts, b, i)) =>
                            IF ts[i + 1].kind = tokenTypeSemicolon
                            THEN /\ \E c \in ids(d.CustomOps) :
                                        /\ heap[c].Start = ts[i].position
                                        /\ heap[c].Name = ts[i].value
                                        /\ heap[c].Errors = <<>>
                                 /\ \A e \in ids(d.Members) : heap[e].Start # ts[i].position
                            ELSE /\ \A c \in ids(d.CustomOps) : heap[c].Start # ts[i].position
                                 /\ \E e \in ids(d.Members) : heap[e].Start = ts[i].position

\* C22: in an interface body and in a mixin body, serializer, jsonifier or
\* stringifier followed directly by `;` is recorded as a CustomOp of that
\* name without an error node, not as a Member; the same word followed by
\* anything else starts a Member.
C22_CustomOps == CustomOpsIn({"Interface", "Mixin"})

----------------------------------------------------------------------------
(* The partial flag.                                                        *)

\* The index in ts of the token at offset position; 0 without one.
TokenAt(ts, position) ==
    LET at == {i \in 1..Len(ts) : ts[i].position = position}
    IN  IF at = {} THEN 0 ELSE CHOOSE i \in at : TRUE

\* ts has the identifier word at index i.
IsKeyword(ts, i, word) ==
    i \in 1..Len(ts) /\ ts[i].kind = tokenTypeIdentifier /\ ts[i].value = word

\* The declaration d records the partial flag as true.
IsPartial(d) == "Partial" \in DOMAIN d /\ d.Partial

\* C23: a declaration that starts with `partial` followed by `interface` or
\* by `dictionary` is returned as a node whose partial flag is true, whatever
\* its kind (`partial interface mixin` included), and a declaration that does
\* not start so has no partial flag set.  Stated of the declarations that
\* start at an identifier, that is, without annotations before them.
C23_PartialFlag ==
    ReturnedTree =>
        \A k \in 1..Len(heap[1].Declarations) :
            LET d == heap[heap[1].Declarations[k]]
                ts == Significant
                i == TokenAt(ts, d.Start)
            IN  (i # 0 /\ ts[i].kind = tokenTypeIdentifier /\ d.kind \notin {"Implementation", "Includes"}) =>
                    (IsPartial(d) <=>
                        /\ IsKeyword(ts, i, "partial")
                        /\ IsKeyword(ts, i + 1, "interface") \/ IsKeyword(ts, i + 1, "dictionary"))

----------------------------------------------------------------------------
(* Declaration keywords as names.                                           *)

\* The indices of ts where a parameter list has a parameter of one type word
\* named by a declaration keyword: after `(` or `,` an identifier, then the
\* keyword, then `,` or `)`.
KeywordNames(ts) ==
    {i \in 4..(Len(ts) - 1) :
        /\ ts[i].kind = tokenTypeIdentifier /\ ts[i].value \in DeclarationKeywords
        /\ ts[i - 1].kind = tokenTypeIdentifier
        /\ ts[i - 1].value \notin DeclarationKeywords \cup {"optional"}
        /\ ts[i - 2].kind \in {tokenTypeLeftParen, tokenTypeComma}
        /\ ts[i + 1].kind \in {tokenTypeRightParen, tokenTypeComma}}

\* The offset of the last rune of the token t.
EndOf(t) == t.position + Len(t.value) - 1

\* C24: an identifier spelled as a declaration keyword is an ordinary name in
\* a name position.  When Parse has returned the tree of a source in which
\* parameters of annotations or operations are named by a declaration
\* keyword, as `MutationCallback callback` is in tests/callback_ident.webidl,
\* each of them is a Parameter of that name spanning its type and name, the
\* tree has no error node, and the source is parsed to its end: every
\* declaration is an Interface with its name, and the last one ends at the
\* last token of the source.
C24_KeywordAsName ==
    LET ts == Significant
        declarations == heap[1].Declarations
    IN  (ReturnedTree /\ KeywordNames(ts) # {}) =>
            /\ \A i \in KeywordNames(ts) :
                   \E p \in 1..Len(heap) :
                       /\ heap[p].kind = "Parameter"
                       /\ heap[p].Name = ts[i].value
                       /\ heap[p].Start = ts[i - 1].position
                       /\ heap[p].End = EndOf(ts[i])
                       /\ heap[p].Errors = <<>>
            /\ ErrorNodes(heap) = {}
            /\ parser.currentToken.kind = tokenTypeEOF
            /\ declarations # <<>>
            /\ \A k \in 1..Len(declarations) :
                   /\ heap[declarations[k]].kind = "Interface"
                   /\ heap[declarations[k]].Name # ""
                   /\ heap[declarations[k]].Members # <<>>
            /\ heap[declarations[Len(declarations)]].End = EndOf(ts[Len(ts) - 1])

\* Parse has returned the tree of tests/callback_ident.webidl: the
\* Constructor annotation of MutationObserver has a parameter named callback.
C24_Witness ==
    /\ ReturnedTree
    /\ \E i \in KeywordNames(Significant) : Significant[i].value = "callback"
    /\ \E d \in 1..Len(heap) :
           /\ heap[d].kind = "Interface" /\ heap[d].Name = "MutationObserver"
           /\ Len(heap[d].Members) = 3
           /\ \E a \in 1..Len(heap[d].Annotations) :
                  LET annotation == heap[heap[d].Annotations[a]]
                  IN  /\ annotation.Name = "Constructor"
                      /\ Len(annotation.Parameters) = 1
                      /\ heap[annotation.Parameters[1]].Name = "callback"

----------------------------------------------------------------------------
(* The construction stack.                                                  *)

Declarators ==
    {"consumeDeclaration", "consumeInterfaceOrMixin", "consumeInterface", "consumeMixin",
     "consumeDictionary", "consumeEnum", "consumeTypedef"}

\* The local named field of the frame f, when it has one.
Local(f, field) == IF field \in DOMAIN f THEN <<f[field]>> ELSE <<>>

\* The nodes that the rule in progress at the frame f has opened and not yet
\* completed, in the order it opened them.
Opened(f) ==
    IF f.fn \in Declarators
    THEN Local(f, "base") \o (IF f.pc \in {"iterableElem", "iterableKey"} THEN Local(f, "iter") ELSE <<>>)
    ELSE IF f.fn = "consumeType" THEN Local(f, "base")
    ELSE IF f.fn \in {"consumeTopLevel", "consumeMember", "consumeParameter", "consumeAnnotationPart"}
    THEN Local(f, "n")
    ELSE <<>>

\* The nodes opened by the rules in progress, outermost first.
RECURSIVE OpenedBy(_)
OpenedBy(frames) == IF frames = <<>> THEN <<>> ELSE Opened(Head(frames)) \o OpenedBy(Tail(frames))

\* The construction stack while Parse runs and when it returns: it holds
\* exactly the nodes opened by the rules in progress, outermost first; no open
\* node has had its End written; a completion action or emitError has never
\* found it empty; it is empty when Parse returns.
StackOfRules ==
    /\ parser.status = "running" => parser.nodes = OpenedBy(stack)
    /\ \A i \in 1..Len(parser.nodes) : parser.nodes[i] # 0 => heap[parser.nodes[i]].End = 0
    /\ parser.status = "panic" => parser.nodes # <<>>
    /\ parser.status = "returned" => parser.nodes = <<>> /\ stack = <<>>

\* The rule in progress at the frame f has deferred the completion of the node
\* it opened: consumeDeclaration and consumeInterfaceOrMixin call or hand on
\* the completion action without defer, and so does the body loop for the
\* Iterable it opens.
Deferred(f) == f.fn \notin {"consumeDeclaration", "consumeInterfaceOrMixin"}

\* A panic unwinds the rules in progress, innermost first, and runs the
\* completion actions they deferred, each on the node on top of nodes: every
\* one of them finds the node that its rule opened.
RECURSIVE UnwindsInOrder(_, _)
UnwindsInOrder(frames, nodes) ==
    IF frames = <<>> THEN TRUE
    ELSE LET f == frames[Len(frames)]
             outer == SubSeq(frames, 1, Len(frames) - 1)
         IN  IF ~Deferred(f) \/ Opened(f) = <<>>
             THEN UnwindsInOrder(outer, nodes)
             ELSE /\ nodes # <<>>
                  /\ nodes[Len(nodes)] = Opened(f)[1]
                  /\ UnwindsInOrder(outer, SubSeq(nodes, 1, Len(nodes) - 1))

\* C25: the construction stack is kept in strict LIFO order on every source
\* text: every completion action runs once, on the node it opened, which is
\* then on top of the stack, so that End is written to that node and to no
\* other; a completion action or emitError never finds the stack empty; and
\* the stack is empty when Parse returns.  The completion actions that a
\* panic runs while it unwinds Parse are among them.
C25_StackDiscipline ==
    /\ StackOfRules
    /\ parser.status = "panic" => UnwindsInOrder(stack, parser.nodes)

----------------------------------------------------------------------------
(* The lookahead of the parser.                                             *)

\* The token t without its comments.
Bare(t) == Lexeme(t.kind, t.position, t.value)

\* The parser of the machine m but for its lookahead buffer.
Driver(m) == [m.p EXCEPT !.lex = <<>>]

\* C26: the lookahead past ignored tokens reads only.  Wherever Parse is
\* running with a token that is not ignored after the current one, nextToken
\* returns that token, however many ignored tokens lie before it, and it is
\* the token that the next consumeToken makes current; isNextToken and
\* isNextIdentifier answer for that token; and none of them changes the
\* current token, the previous token, the construction stack or any node.
C26_LookaheadReadsOnly ==
    (parser.status = "running" /\ Len(Ahead(parser)) > 1) =>
        LET following == Ahead(parser)[2]
            r == nextToken(M)
            token == isNextToken(M, {tokenTypeSemicolon, tokenTypeIdentifier})
            identifier == isNextIdentifier(M, "interface")
        IN  /\ Driver(r.m) = Driver(M) /\ r.m.h = heap
            /\ r.token = following
            /\ Bare(consumeToken(r.m).p.currentToken) = r.token
            /\ Bare(consumeToken(M).p.currentToken) = r.token
            /\ Driver(token.m) = Driver(M) /\ token.m.h = heap
            /\ token.ok <=> following.kind \in {tokenTypeSemicolon, tokenTypeIdentifier}
            /\ Driver(identifier.m) = Driver(M) /\ identifier.m.h = heap
            /\ identifier.ok <=> (following.kind = tokenTypeIdentifier /\ following.value = "interface")

----------------------------------------------------------------------------
(* consume.                                                                 *)

\* The kinds that consume is asked for here.
ConsumedKinds ==
    {{tokenTypeSemicolon}, {tokenTypeIdentifier}, {tokenTypeLeftBrace}, {tokenTypeRightBrace},
     {tokenTypeRightTri}, {tokenTypeComma, tokenTypeRightParen}}

\* C27: consume(kinds) at a current token whose kind is not among kinds does
\* not advance, appends one new ErrorNode to the errors of the node on top of
\* the construction stack and changes no other node, and returns the
\* placeholder token (kind error, position -1, empty value) and false; at a
\* token whose kind is among kinds it advances to the next token that is not
\* ignored, returns the token it was at and true, and changes no node.
C27_Consume ==
    (parser.status = "running" /\ parser.nodes # <<>> /\ Len(heap) < MaxNodes) =>
        \A kinds \in ConsumedKinds :
            LET c == consume(M, kinds)
                top == parser.nodes[Len(parser.nodes)]
                e == Len(heap) + 1
            IN  IF parser.currentToken.kind \notin kinds
                THEN /\ ~c.ok
                     /\ c.token = commentedLexeme(Lexeme(tokenTypeError, -1, ""), <<>>)
                     /\ c.m.p = parser
                     /\ Len(c.m.h) = e
                     /\ c.m.h[e].kind = "ErrorNode"
                     /\ c.m.h[top].Errors = Append(heap[top].Errors, e)
                     /\ \A i \in 1..Len(heap) : i # top => c.m.h[i] = heap[i]
                     /\ c.m.h[top] = [heap[top] EXCEPT !.Errors = Append(@, e)]
                ELSE Len(Ahead(parser)) > 1 =>
                     /\ c.ok
                     /\ c.token = parser.currentToken
                     /\ c.m.h = heap
                     /\ c.m.p.status = "running"
                     /\ c.m.p.previousToken = parser.currentToken
                     /\ Bare(c.m.p.currentToken) = Ahead(parser)[2]
                     /\ Len(Ahead(c.m.p)) = Len(Ahead(parser)) - 1
                     /\ c.m.p.nodes = parser.nodes

\* consume has met a token it was not asked for while the rule of a member is
\* in progress: its error node is on a node of the construction stack.
C27_Witness ==
    /\ parser.status = "running" /\ Len(parser.nodes) > 2
    /\ \E i \in 1..Len(parser.nodes) :
           \E k \in 1..Len(heap[parser.nodes[i]].Errors) :
               heap[heap[parser.nodes[i]].Errors[k]].Message = "Expected one of"
    /\ \E kinds \in ConsumedKinds : parser.currentToken.kind \in kinds
    /\ \E kinds \in ConsumedKinds : parser.currentToken.kind \notin kinds

----------------------------------------------------------------------------
(* consumeToken.                                                            *)

\* The tokens of the lookahead buffer of p, those read ahead first.
Buffered(p) ==
    p.lex.readTokens \o SubSeq(p.lex.lex.toks, p.lex.lex.taken + 1, Len(p.lex.lex.toks))

\* The index in ts of its first token that is not ignored; 0 without one.
FirstSignificant(ts) ==
    LET at == {i \in 1..Len(ts) : ts[i].kind \notin ignoredTokenTypes}
    IN  IF at = {} THEN 0 ELSE CHOOSE i \in at : \A j \in at : i <= j

\* The values of the comment tokens of ts.
CommentsOf(ts) ==
    LET comments == SelectSeq(ts, LAMBDA t : t.kind = tokenTypeComment)
    IN  [i \in 1..Len(comments) |-> comments[i].value]

\* C28: consumeToken makes the current token the previous one and the first
\* token of the lookahead buffer that is not ignored the current one, the
\* tokens before it being taken from the buffer and the comments among them
\* going with it.  Hence the current token is never a whitespace or comment
\* token, and no rule advances past end-of-input: the scanner is never asked
\* for a token after it.
C28_ConsumeToken ==
    /\ (parser.status = "running" /\ FirstSignificant(Buffered(parser)) # 0) =>
           LET ts == Buffered(parser)
               k == FirstSignificant(ts)
               c == consumeToken(M)
           IN  /\ c.p.previousToken = parser.currentToken
               /\ c.p.currentToken = commentedLexeme(ts[k], CommentsOf(SubSeq(ts, 1, k - 1)))
               /\ Buffered(c.p) = SubSeq(ts, k + 1, Len(ts))
               /\ c.p.status = "running" /\ c.p.nodes = parser.nodes /\ c.h = heap
    /\ parser.currentToken.kind \notin ignoredTokenTypes
    /\ parser.previousToken.kind \notin ignoredTokenTypes
    /\ parser.status = "stuck" =>
           parser.lex.lex.toks[Len(parser.lex.lex.toks)].kind # tokenTypeEOF
    /\ (parser.lex.lex.taken = Len(parser.lex.lex.toks) /\ parser.lex.readTokens = <<>>
            /\ parser.lex.lex.toks[Len(parser.lex.lex.toks)].kind = tokenTypeEOF) =>
           parser.currentToken.kind = tokenTypeEOF

\* consumeToken has passed over whitespace and two comments: the current
\* token carries both comments and the previous token is the token before them.
C28_Witness ==
    /\ Len(parser.currentToken.comments) = 2
    /\ parser.previousToken.kind = tokenTypeLeftBrace
    /\ parser.previousToken.position < parser.currentToken.position

----------------------------------------------------------------------------
(* The owners of the error nodes.                                           *)

\* The places of the tree of h that refer to the error node e: the node and
\* the index in its errors.
Owners(h, e) ==
    {<<n, k>> \in Tree(h) \X (1..Len(h)) : k <= Len(h[n].Errors) /\ h[n].Errors[k] = e}

\* C29: the tree that Parse returns owns its error nodes strictly: an
\* ErrorNode of the tree is in the errors of one node and there once.  A type
\* followed by `?` that had an error recorded while it was open has the
\* ErrorNode either on the NullableType or on the type it wraps, not on both.
C29_ErrorsOwnedOnce ==
    ReturnedTree =>
        \A e \in ErrorNodes(heap) : Cardinality(Owners(heap, e)) <= 1

----------------------------------------------------------------------------
(* The spans of the declarations.                                           *)

\* The number of tokens of kind among the first n of ts.
Before(ts, n, kind) == Cardinality({i \in 1..n : ts[i].kind = kind})

\* The indices in ts of the `;` outside braces: the ends of the declarations.
Terminators(ts) ==
    {i \in 1..Len(ts) :
        /\ ts[i].kind = tokenTypeSemicolon
        /\ Before(ts, i, tokenTypeLeftBrace) = Before(ts, i, tokenTypeRightBrace)}

\* The k-th smallest member of the set of numbers S, 0 for k = 0.
Nth(S, k) == IF k = 0 THEN 0 ELSE CHOOSE i \in S : Cardinality({j \in S : j <= i}) = k

\* The spans of the declarations of kinds, as C30 has them.
DeclarationSpans(kinds) ==
    LET ts == Significant
        declarations == heap[1].Declarations
    IN  (ReturnedTree /\ ErrorNodes(heap) = {}
             /\ Len(declarations) = Cardinality(Terminators(ts))) =>
            \A k \in 1..Len(declarations) :
                heap[declarations[k]].kind \in kinds =>
                    /\ heap[declarations[k]].Start = ts[Nth(Terminators(ts), k - 1) + 1].position
                    /\ heap[declarations[k]].End = ts[Nth(Terminators(ts), k)].position

DeclarationKinds ==
    {"Interface", "Mixin", "Dictionary", "Enum", "Typedef", "Callback", "Implementation", "Includes"}

\* C30: every declaration of a File parsed from a well-formed source, of every
\* kind, Implementation and Includes among them, starts at the offset of its
\* first token and ends at the offset of the `;` that terminates it, wherever
\* in the file it is.
C30_DeclarationSpans == DeclarationSpans(DeclarationKinds)

============================================================================
